---- MODULE Spec2Model ----
(***************************************************************************)
(* A model of the Markdown parsing core of Mark-rs (src/src/parser.rs):    *)
(* the inline parser with its emphasis resolver, link/image and code-span  *)
(* parsing, and the block parser's heading and table rules.                *)
(*                                                                         *)
(* Rust indices are kept 0-based in the state (parsed_position, i, j, the  *)
(* cursor position); a TLA+ sequence is 1-based, so the element at Rust    *)
(* index p of a sequence s is s[p + 1].                                    *)
(***************************************************************************)
EXTENDS Integers, Sequences, FiniteSets, TLC

VARIABLES
    tokens,           \* parse_inline: cursor.tokens
    pos,              \* parse_inline: cursor.current_position
    buffer,           \* parse_inline: buffer
    elements,         \* parse_inline: parsed_inline_elements
    delimiter_stack,  \* parse_inline: delimiter_stack
    i,                \* resolve_emphasis: index of the closer under examination
    j,                \* resolve_emphasis: index of the opener under examination
    closer,           \* resolve_emphasis: the clone of delimiter_stack[i] taken before the backward scan
    pc,               \* where parse_inline stands: scan, outer, inner, done, panic, idle
    block,            \* parse_block: the tokens of the block
    result,           \* parse_block: the returned Option<MdBlockElement>
    bpc,              \* where parse_block stands: ready, done, idle
    tokenized_lines,  \* generate_static_site: the tokens of each line of the file
    line_index,       \* group_lines_to_blocks: the number of lines handled
    blocks,           \* group_lines_to_blocks: blocks
    is_inside_code_block, \* group_lines_to_blocks: is_inside_code_block
    block_index,      \* parse_blocks: the number of blocks handled
    parsed_elements,  \* parse_blocks: block_elements, returned as parsed_elements
    dpc,              \* where generate_static_site stands: group, parse, done, idle
    source_line,      \* tokenize: the characters of the line
    lexed,            \* tokenize: the returned tokens
    lpc,              \* where tokenize stands: ready, done, idle
    sender,           \* ThreadPool: the sender is alive (not yet dropped)
    queue,            \* the jobs in the channel
    mutex_holders,    \* the workers holding a guard of the receiver's mutex
    poisoned,         \* the receiver's mutex is poisoned
    workers,          \* ThreadPool: workers, each with its position and job_result
    mpc,              \* where run stands: execute, join, done, failed, idle
    joined,           \* join_all: the number of workers joined
    sent,             \* the number of jobs execute has accepted
    started,          \* how often each job has been entered
    finished          \* the jobs that have returned

vars == <<tokens, pos, buffer, elements, delimiter_stack, i, j, closer, pc, block, result, bpc,
          tokenized_lines, line_index, blocks, is_inside_code_block, block_index,
          parsed_elements, dpc, source_line, lexed, lpc, sender, queue, mutex_holders,
          poisoned, workers, mpc, joined, sent, started, finished>>

inlineVars == <<tokens, pos, buffer, elements, delimiter_stack, i, j, closer, pc>>
blockVars == <<block, result, bpc>>
docVars == <<tokenized_lines, line_index, blocks, is_inside_code_block, block_index,
             parsed_elements, dpc>>
lexVars == <<source_line, lexed, lpc>>
poolVars == <<sender, queue, mutex_holders, poisoned, workers, mpc, joined, sent, started,
              finished>>

\* No pool has been built
PoolIdle ==
    /\ sender = FALSE
    /\ queue = <<>>
    /\ mutex_holders = {}
    /\ poisoned = FALSE
    /\ workers = <<>>
    /\ mpc = "idle"
    /\ joined = 0
    /\ sent = 0
    /\ started = <<>>
    /\ finished = {}

(***************************************************************************)
(* Bounds of the model.                                                    *)
(***************************************************************************)
MaxRun == 3          \* longest emphasis run of the enumerated inputs
MaxEmphTokens == 5   \* longest enumerated emphasis token sequence
MaxRuleTokens == 5   \* longest enumerated sequence of runs next to punctuation
MaxLinkTokens == 5   \* tokens enumerated after an opening bracket
MaxCodeTokens == 4   \* longest enumerated code-span token sequence
MaxHashes == 8       \* most leading '#' tokens of an enumerated heading block
MaxCells == 3        \* most cells of an enumerated table row
MaxBodyRows == 2     \* most body rows of an enumerated table

(***************************************************************************)
(* Token (types.rs, spec section 3).                                       *)
(***************************************************************************)
Text(s) == [k |-> "Text", s |-> s]
Punctuation(s) == [k |-> "Punctuation", s |-> s]
Escape(c) == [k |-> "Escape", s |-> c]
OrderedListMarker(s) == [k |-> "OrderedListMarker", s |-> s]
RawHtmlTag(s) == [k |-> "RawHtmlTag", s |-> s]
EmphasisRun(d, n) == [k |-> "EmphasisRun", delimiter |-> d, length |-> n]
Whitespace == [k |-> "Whitespace"]
Tab == [k |-> "Tab"]
Newline == [k |-> "Newline"]
OpenParenthesis == [k |-> "OpenParenthesis"]
CloseParenthesis == [k |-> "CloseParenthesis"]
OpenBracket == [k |-> "OpenBracket"]
CloseBracket == [k |-> "CloseBracket"]
TableCellSeparator == [k |-> "TableCellSeparator"]
CodeTick == [k |-> "CodeTick"]
CodeFence == [k |-> "CodeFence"]
BlockQuoteMarker == [k |-> "BlockQuoteMarker"]
ThematicBreak == [k |-> "ThematicBreak"]
\* Option<&Token>::None, as returned by cursor.current() and peek_ahead() at the end
NoToken == [k |-> "None"]

(***************************************************************************)
(* MdInlineElement (types.rs, spec section 3).  An Option<String> title is *)
(* a sequence of zero (None) or one (Some) strings.                        *)
(***************************************************************************)
TextEl(c) == [t |-> "Text", content |-> c]
Bold(c) == [t |-> "Bold", content |-> c]
Italic(c) == [t |-> "Italic", content |-> c]
Code(c) == [t |-> "Code", content |-> c]
Link(text, title, url) == [t |-> "Link", text |-> text, title |-> title, url |-> url]
Image(alt, title, url) == [t |-> "Image", alt_text |-> alt, title |-> title, url |-> url]
Placeholder == [t |-> "Placeholder"]

\* CONFIG.lexer.tab_size: a positive integer of the configuration
TabSize == 4

\* The backquote character: a TLA+ string literal cannot hold it, so the
\* model writes it as an apostrophe, a character no token of the model carries
Backtick == "'"

RECURSIVE Repeat(_, _)
\* str.repeat(n)
Repeat(s, n) == IF n <= 0 THEN "" ELSE s \o Repeat(s, n - 1)

(***************************************************************************)
(* TokenCursor (types.rs, spec section 3): a forward iterator.             *)
(***************************************************************************)
Current(toks, p) == IF p < Len(toks) THEN toks[p + 1] ELSE NoToken
PeekAhead(toks, p, n) == Current(toks, p + n)
Advance(toks, p) == IF p < Len(toks) THEN p + 1 ELSE p
IsAtEof(toks, p) == p >= Len(toks)

\* utils::push_buffer_to_collection on a Vec<MdInlineElement>: a non-empty
\* buffer is pushed as a Text element (the caller's buffer is then empty)
PushBuffer(coll, buf) == IF buf = "" THEN coll ELSE Append(coll, TextEl(buf))

\* Delimiter { .. } as pushed for an EmphasisRun token at cursor position p
NewDelimiter(token, p, parsed) ==
    [ch |-> token.delimiter, run_length |-> token.length, token_position |-> p,
     parsed_position |-> parsed, active |-> TRUE, can_open |-> TRUE, can_close |-> TRUE]

(***************************************************************************)
(* Delimiter::classify_flanking (types.rs), from spec section 4.4:         *)
(* can_open when the token before is missing, whitespace or punctuation    *)
(* and the token after is not whitespace; can_close symmetrically; an      *)
(* underscore run neither opens after nor closes before a word.            *)
(***************************************************************************)
IsBlank(token) == token.k \in {"None", "Whitespace", "Tab", "Newline"}
IsPunct(token) == token.k \in {"Punctuation", "OpenParenthesis", "CloseParenthesis",
                               "OpenBracket", "CloseBracket"}
IsWord(token) == token.k = "Text"

ClassifyFlanking(d, toks) ==
    LET before == IF d.token_position = 0 THEN NoToken ELSE toks[d.token_position]
        after == Current(toks, d.token_position + 1)
        open == (IsBlank(before) \/ IsPunct(before)) /\ ~IsBlank(after)
        close == (IsBlank(after) \/ IsPunct(after)) /\ ~IsBlank(before)
    IN [d EXCEPT !.can_open = open /\ ~(d.ch = "_" /\ IsWord(before)),
                 !.can_close = close /\ ~(d.ch = "_" /\ IsWord(after))]

(***************************************************************************)
(* flatten_inline                                                          *)
(***************************************************************************)
RECURSIVE FlattenInline(_)
FlattenInline(els) ==
    IF els = <<>> THEN ""
    ELSE LET e == Head(els)
             s == CASE e.t = "Text" -> e.content
                    [] e.t = "Bold" -> FlattenInline(e.content)
                    [] e.t = "Italic" -> FlattenInline(e.content)
                    [] e.t = "Code" -> e.content
                    [] e.t = "Link" -> FlattenInline(e.text)
                    [] e.t = "Image" -> e.alt_text
                    [] OTHER -> ""
         IN s \o FlattenInline(Tail(els))

(***************************************************************************)
(* resolve_emphasis: the pieces of one pairing.                            *)
(***************************************************************************)
\* line 926: the delimiter at i is taken as a closer
IsCloser(d) == d.active /\ d.can_close

\* lines 945-954: the rule of three, on the clone of the closer
RuleOfThree(opener, cl) ==
    /\ (cl.can_open /\ cl.can_close) \/ (opener.can_open /\ opener.can_close)
    /\ (cl.run_length + opener.run_length) % 3 = 0
    /\ cl.run_length % 3 # 0
    /\ opener.run_length % 3 # 0

\* lines 934-954: the delimiter at j is paired with the clone of the closer
OpenerMatches(opener, cl) ==
    /\ opener.active
    /\ opener.can_open
    /\ cl.ch = opener.ch
    /\ ~RuleOfThree(opener, cl)

\* lines 957-961
DelimitersUsed(opener, cl) ==
    IF cl.run_length >= 2 /\ opener.run_length >= 2 THEN 2 ELSE 1

\* lines 964-968
RangeStart(opener, used) ==
    IF opener.run_length > used THEN opener.parsed_position + 1 ELSE opener.parsed_position

\* lines 970-974
RangeEnd(cl, used) ==
    IF cl.run_length >= used THEN cl.parsed_position ELSE cl.parsed_position + 1

\* lines 957-974: delimiters_used, range_start and range_end of one pairing
PairRange(opener, cl) ==
    LET used == DelimitersUsed(opener, cl)
    IN [used |-> used, start |-> RangeStart(opener, used), end |-> RangeEnd(cl, used)]

\* The slice elements[range_start + 1..range_end] (lines 979, 982) panics when
\* its start is past its end or its end past the list; the splice of
\* range_start..=range_end (line 987) panics when range_end + 1 is past the list.
PairPanics(els, r) ==
    r.start + 1 > r.end \/ r.end > Len(els) \/ r.end + 1 > Len(els)

\* lines 977-985
ElementToInsert(els, r) ==
    IF r.used = 2
    THEN Bold(SubSeq(els, r.start + 2, r.end))
    ELSE Italic(SubSeq(els, r.start + 2, r.end))

\* line 987: elements.splice(range_start..=range_end, vec![element_to_insert])
Splice(els, r) ==
    SubSeq(els, 1, r.start) \o <<ElementToInsert(els, r)>> \o SubSeq(els, r.end + 2, Len(els))

SaturatingSub(a, b) == IF a >= b THEN a - b ELSE 0

\* lines 988-1011 for one delimiter d of the stack: its parsed_position is
\* moved when it lies past the position of the clone of the closer, and when
\* it is one of the two paired delimiters its run_length is reduced and it is
\* deactivated at zero
DelimiterAfterPair(d, paired, r, cl) ==
    [d EXCEPT !.parsed_position =
                  IF @ > cl.parsed_position THEN @ - (r.end - r.start) ELSE @,
              !.run_length = IF paired THEN SaturatingSub(@, r.used) ELSE @,
              !.active = IF paired /\ SaturatingSub(d.run_length, r.used) = 0
                         THEN FALSE ELSE @]

\* lines 988-1011: the delimiter stack after the pairing of stack[jj] with the
\* clone cl of stack[ii]
StackAfterPair(stack, ii, jj, cl, r) ==
    [k \in 1..Len(stack) |->
        DelimiterAfterPair(stack[k], k = ii + 1 \/ k = jj + 1, r, cl)]

RECURSIVE RewriteActive(_, _, _)
\* lines 1016-1022: every active delimiter whose parsed_position lies in the
\* list has the element there replaced by Text(ch), in stack order
RewriteActive(els, stack, k) ==
    IF k > Len(stack) THEN els
    ELSE LET el == stack[k]
         IN IF el.active /\ el.parsed_position < Len(els)
            THEN RewriteActive([els EXCEPT ![el.parsed_position + 1] =
                                    TextEl(el.ch)], stack, k + 1)
            ELSE RewriteActive(els, stack, k + 1)

\* lines 915-923: a stack of one delimiter is not resolved
SingleDelimiter(els, stack) ==
    IF stack[1].active
    THEN [els EXCEPT ![stack[1].parsed_position + 1] = TextEl(stack[1].ch)]
    ELSE els

(***************************************************************************)
(* resolve_emphasis as a function: the loops of lines 925-1013 run to the  *)
(* end.  The result is [panic, elements, stack].                           *)
(***************************************************************************)
RECURSIVE InnerLoop(_, _, _, _, _)
InnerLoop(els, stack, ii, jj, cl) ==
    IF jj < 0 THEN [panic |-> FALSE, elements |-> els, stack |-> stack]
    ELSE IF ~OpenerMatches(stack[jj + 1], cl)
    THEN InnerLoop(els, stack, ii, jj - 1, cl)
    ELSE LET r == PairRange(stack[jj + 1], cl)
         IN IF PairPanics(els, r)
            THEN [panic |-> TRUE, elements |-> els, stack |-> stack]
            ELSE InnerLoop(Splice(els, r), StackAfterPair(stack, ii, jj, cl, r),
                           ii, jj - 1, cl)

RECURSIVE OuterLoop(_, _, _)
\* the outer loop goes on after the backward scan r of the closer at ii
AfterInnerLoop(r, ii) ==
    IF r.panic THEN r ELSE OuterLoop(r.elements, r.stack, ii + 1)

OuterLoop(els, stack, ii) ==
    IF ii >= Len(stack)
    THEN [panic |-> FALSE, elements |-> RewriteActive(els, stack, 1), stack |-> stack]
    ELSE IF ~IsCloser(stack[ii + 1]) THEN OuterLoop(els, stack, ii + 1)
    ELSE AfterInnerLoop(InnerLoop(els, stack, ii, ii - 1, stack[ii + 1]), ii)

ResolveEmphasis(els, stack) ==
    IF Len(stack) = 1
    THEN [panic |-> FALSE, elements |-> SingleDelimiter(els, stack), stack |-> stack]
    ELSE OuterLoop(els, stack, 0)

(***************************************************************************)
(* parse_link_type.  A call returns [el, pos, panic]: the element, the     *)
(* cursor position it leaves, and whether the resolver panicked inside.    *)
(***************************************************************************)
\* lines 775-784: what a token adds to label_buffer
LabelText(token) ==
    CASE token.k \in {"Text", "Punctuation", "OrderedListMarker"} -> token.s
      [] token.k = "Escape" -> "\\" \o token.s
      [] token.k = "Whitespace" -> " "
      [] token.k = "ThematicBreak" -> "---"
      [] token.k = "OpenParenthesis" -> "("
      [] token.k = "CloseParenthesis" -> ")"
      [] token.k = "TableCellSeparator" -> "|"
      [] token.k = "BlockQuoteMarker" -> ">"
      [] OTHER -> ""

\* lines 820-828: what a token adds to uri
UriText(token) ==
    CASE token.k \in {"Text", "Punctuation", "OrderedListMarker", "RawHtmlTag"} -> token.s
      [] token.k = "Escape" -> "\\" \o token.s
      [] token.k = "ThematicBreak" -> "---"
      [] token.k = "TableCellSeparator" -> "|"
      [] token.k = "BlockQuoteMarker" -> ">"
      [] OTHER -> ""

\* lines 842-864: what a token adds to title
TitleText(token) ==
    CASE token.k \in {"Text", "Punctuation", "OrderedListMarker", "RawHtmlTag"} -> token.s
      [] token.k = "Escape" -> "\\" \o token.s
      [] token.k = "EmphasisRun" -> Repeat(token.delimiter, token.length)
      [] token.k = "OpenBracket" -> "["
      [] token.k = "CloseBracket" -> "]"
      [] token.k = "OpenParenthesis" -> "("
      [] token.k = "TableCellSeparator" -> "|"
      [] token.k = "Tab" -> "\t"
      [] token.k = "Newline" -> "\\n"
      [] token.k = "Whitespace" -> " "
      [] token.k = "CodeTick" -> Backtick
      [] token.k = "CodeFence" -> Repeat(Backtick, 3)
      [] token.k = "ThematicBreak" -> "---"
      [] token.k = "BlockQuoteMarker" -> ">"
      [] OTHER -> ""

RECURSIVE UrlLoop(_, _, _)
\* lines 816-868: the loop over the tokens from '(' on; u holds uri, title,
\* is_building_title, is_valid_title and has_opening_quote.  The result is u
\* with the position of the ')' that ended the loop, or of the end.
UrlLoop(toks, p, u) ==
    LET token == Current(toks, p)
    IN IF token.k = "None" \/ token.k = "CloseParenthesis"
       THEN [u EXCEPT !.pos = p]
       ELSE IF ~u.is_building_title
       THEN IF token.k = "Whitespace"
            THEN UrlLoop(toks, Advance(toks, p), [u EXCEPT !.is_building_title = TRUE])
            ELSE UrlLoop(toks, Advance(toks, p), [u EXCEPT !.uri = @ \o UriText(token)])
       ELSE IF token = Punctuation("\"")
       THEN IF u.has_opening_quote
            THEN UrlLoop(toks, Advance(toks, p),
                         [u EXCEPT !.is_valid_title = TRUE, !.is_building_title = FALSE])
            ELSE UrlLoop(toks, Advance(toks, p),
                         [u EXCEPT !.has_opening_quote = TRUE, !.is_valid_title = FALSE])
       ELSE UrlLoop(toks, Advance(toks, p), [u EXCEPT !.title = @ \o TitleText(token)])

\* lines 810-814
UrlStart ==
    [pos |-> 0, uri |-> "", title |-> "", is_building_title |-> FALSE,
     is_valid_title |-> TRUE, has_opening_quote |-> FALSE]

\* make_link, make_image and the closures of parse_inline (lines 591-595, 627-631)
MakeElement(kind, label, title, uri) ==
    IF kind = "Image" THEN Image(FlattenInline(label), title, uri)
    ELSE Link(label, title, uri)

\* lines 870-881: the element returned once the label is closed and '(' follows
LinkElement(kind, label, u, toks) ==
    IF Current(toks, u.pos) # CloseParenthesis
    THEN TextEl("[" \o FlattenInline(label) \o "](" \o u.uri \o " ")
    ELSE IF u.title # "" /\ ~u.is_valid_title
    THEN TextEl("[" \o FlattenInline(label) \o "](" \o u.uri \o " " \o u.title \o ")")
    ELSE MakeElement(kind, label, IF u.title = "" THEN <<>> ELSE <<u.title>>, u.uri)

\* lines 808-881: the element, and the cursor where the loop over the url left it
LinkTail(kind, label, u, toks) ==
    [el |-> LinkElement(kind, label, u, toks), pos |-> u.pos, panic |-> FALSE]

\* lines 799-806: the label is closed and no '(' follows
NoParenthesisPos(toks, p) == Advance(toks, p)

RECURSIVE ParseLinkType(_, _, _)
RECURSIVE LabelLoop(_, _, _)
\* lines 743-748, 769-773: the label after an inner link or image, the loop
\* going on after the token the inner call stopped at
AfterInnerLink(toks, l, inner) ==
    IF inner.panic THEN [l EXCEPT !.pos = inner.pos, !.panic = TRUE]
    ELSE LabelLoop(toks, Advance(toks, inner.pos),
             [l EXCEPT !.label = Append(PushBuffer(l.label, l.buf), inner.el), !.buf = ""])

\* lines 749-761: the label after an emphasis run at p
AfterLabelEmphasis(l, token, p, flushed) ==
    [l EXCEPT !.label = Append(flushed, Placeholder), !.buf = "",
              !.stack = Append(l.stack, NewDelimiter(token, p, Len(flushed)))]

\* lines 737-787: the loop over the label; l holds label_elements,
\* label_buffer, delimiter_stack and the panic flag of an inner call
LabelLoop(toks, p, l) ==
    CASE Current(toks, p).k = "None" -> [l EXCEPT !.pos = p]
      [] Current(toks, p).k = "CloseBracket" ->
            [l EXCEPT !.pos = p, !.label = PushBuffer(l.label, l.buf), !.buf = ""]
      [] Current(toks, p).k = "OpenBracket" ->
            AfterInnerLink(toks, l, ParseLinkType(toks, p, "Link"))
      [] Current(toks, p).k = "EmphasisRun" ->
            LabelLoop(toks, Advance(toks, p),
                AfterLabelEmphasis(l, Current(toks, p), p, PushBuffer(l.label, l.buf)))
      [] Current(toks, p) = Punctuation("!") /\ PeekAhead(toks, p, 1) # OpenBracket ->
            LabelLoop(toks, Advance(toks, p), [l EXCEPT !.buf = @ \o "!"])
      [] Current(toks, p) = Punctuation("!") /\ PeekAhead(toks, p, 1) = OpenBracket ->
            AfterInnerLink(toks, l, ParseLinkType(toks, Advance(toks, p), "Image"))
      [] OTHER ->
            LabelLoop(toks, Advance(toks, p), [l EXCEPT !.buf = @ \o LabelText(Current(toks, p))])

\* lines 733-735
LabelStart == [pos |-> 0, label |-> <<>>, buf |-> "", stack |-> <<>>, panic |-> FALSE]

\* lines 792-882: the element and the cursor position once the label, closed
\* at position q or not, is resolved to r
AfterLabelResolved(toks, kind, q, r) ==
    IF r.panic
    THEN [el |-> Placeholder, pos |-> q, panic |-> TRUE]
    ELSE IF Current(toks, q) # CloseBracket
    THEN [el |-> TextEl("[" \o FlattenInline(r.elements)), pos |-> q, panic |-> FALSE]
    ELSE IF PeekAhead(toks, q, 1) # OpenParenthesis
    THEN [el |-> TextEl("[" \o FlattenInline(r.elements) \o "]"),
          pos |-> NoParenthesisPos(toks, q), panic |-> FALSE]
    ELSE LinkTail(kind, r.elements, UrlLoop(toks, Advance(toks, q), UrlStart), toks)

\* lines 789-790: the label read by the loop is flushed and resolved
AfterLabel(toks, kind, l) ==
    IF l.panic
    THEN [el |-> Placeholder, pos |-> l.pos, panic |-> TRUE]
    ELSE AfterLabelResolved(toks, kind, l.pos,
             ResolveEmphasis(PushBuffer(l.label, l.buf), l.stack))

\* lines 729-882; p is the position of the opening bracket
ParseLinkType(toks, p, kind) ==
    AfterLabel(toks, kind, LabelLoop(toks, Advance(toks, p), LabelStart))

(***************************************************************************)
(* parse_code_span                                                         *)
(***************************************************************************)
\* lines 675-692: what a token adds to code_content
CodeText(token) ==
    CASE token.k \in {"Text", "Punctuation", "OrderedListMarker", "RawHtmlTag"} -> token.s
      [] token.k = "Escape" -> "\\" \o token.s
      [] token.k = "OpenParenthesis" -> "("
      [] token.k = "CloseParenthesis" -> ")"
      [] token.k = "OpenBracket" -> "["
      [] token.k = "CloseBracket" -> "]"
      [] token.k = "TableCellSeparator" -> "|"
      [] token.k = "EmphasisRun" -> Repeat(token.delimiter, token.length)
      [] token.k = "Whitespace" -> " "
      [] token.k = "Tab" -> Repeat(" ", TabSize)
      [] token.k = "Newline" -> "\n"
      [] token.k = "ThematicBreak" -> "---"
      [] token.k = "BlockQuoteMarker" -> ">"
      [] OTHER -> ""

RECURSIVE ParseCodeSpan(_, _, _)
\* lines 670-699: [content, pos] with pos at the closing tick or at the end
ParseCodeSpan(toks, p, content) ==
    LET token == Current(toks, p)
    IN IF token.k = "None" \/ token.k = "CodeTick"
       THEN [content |-> content, pos |-> p]
       ELSE ParseCodeSpan(toks, Advance(toks, p), content \o CodeText(token))

\* lines 605-613: the element pushed for a code tick, given the span read
CodeSpanElement(toks, span) ==
    IF Current(toks, span.pos) # CodeTick
    THEN TextEl(Backtick \o span.content \o Backtick)
    ELSE Code(span.content)

(***************************************************************************)
(* parse_inline: one iteration of the loop of lines 568-650.  st holds the *)
(* cursor position, buffer, parsed_inline_elements, delimiter_stack and    *)
(* whether a resolver called for a link label panicked.                    *)
(***************************************************************************)
\* lines 635-645: what a token adds to buffer
BufferText(token) ==
    CASE token.k \in {"Text", "Punctuation", "OrderedListMarker", "RawHtmlTag"} -> token.s
      [] token.k = "Escape" -> "\\" \o token.s
      [] token.k = "Whitespace" -> " "
      [] token.k = "CloseBracket" -> "]"
      [] token.k = "OpenParenthesis" -> "("
      [] token.k = "CloseParenthesis" -> ")"
      [] token.k = "ThematicBreak" -> "---"
      [] token.k = "TableCellSeparator" -> "|"
      [] token.k = "BlockQuoteMarker" -> ">"

\* line 646: the tokens of the last arm, which only flushes the buffer
IsFlushOnly(token) == token.k \in {"Tab", "Newline", "CodeFence"}

\* line 615-616: a '!' that starts an image
IsImageStart(toks, p) ==
    Current(toks, p) = Punctuation("!") /\ PeekAhead(toks, p, 1) = OpenBracket

\* lines 572-586
ScanEmphasis(toks, st) ==
    LET token == Current(toks, st.pos)
        flushed == PushBuffer(st.elements, st.buffer)
    IN [st EXCEPT !.buffer = "",
                  !.stack = Append(st.stack, NewDelimiter(token, st.pos, Len(flushed))),
                  !.elements = Append(flushed, Placeholder),
                  !.pos = Advance(toks, st.pos)]

\* lines 587-597 (a link) and 623-633 (an image, the cursor first moved to '[')
AfterLinkType(toks, st, link) ==
    [st EXCEPT !.buffer = "",
               !.elements = Append(PushBuffer(st.elements, st.buffer), link.el),
               !.panic = link.panic,
               !.pos = Advance(toks, link.pos)]

ScanLinkType(toks, st, kind) ==
    AfterLinkType(toks, st,
        ParseLinkType(toks, IF kind = "Image" THEN Advance(toks, st.pos) ELSE st.pos, kind))

\* lines 598-614
AfterCodeSpan(toks, st, span) ==
    [st EXCEPT !.buffer = "",
               !.elements = Append(PushBuffer(st.elements, st.buffer),
                                   CodeSpanElement(toks, span)),
               !.pos = Advance(toks, span.pos)]

ScanCode(toks, st) ==
    AfterCodeSpan(toks, st, ParseCodeSpan(toks, Advance(toks, st.pos), ""))

\* lines 617-620 and 635-645
ScanPlain(toks, st) ==
    [st EXCEPT !.buffer = @ \o BufferText(Current(toks, st.pos)),
               !.pos = Advance(toks, st.pos)]

\* line 646
ScanFlush(toks, st) ==
    [st EXCEPT !.buffer = "",
               !.elements = PushBuffer(st.elements, st.buffer),
               !.pos = Advance(toks, st.pos)]

\* lines 571-649: the match on the current token
ScanToken(toks, st) ==
    CASE Current(toks, st.pos).k = "EmphasisRun" -> ScanEmphasis(toks, st)
      [] Current(toks, st.pos).k = "OpenBracket" -> ScanLinkType(toks, st, "Link")
      [] Current(toks, st.pos).k = "CodeTick" -> ScanCode(toks, st)
      [] IsImageStart(toks, st.pos) -> ScanLinkType(toks, st, "Image")
      [] IsFlushOnly(Current(toks, st.pos)) -> ScanFlush(toks, st)
      [] OTHER -> ScanPlain(toks, st)

\* lines 556-565
ScanStart == [pos |-> 0, buffer |-> "", elements |-> <<>>, stack |-> <<>>, panic |-> FALSE]

\* lines 654-656
ClassifyAll(stack, toks) == [k \in 1..Len(stack) |-> ClassifyFlanking(stack[k], toks)]

RECURSIVE ScanLoop(_, _)
ScanLoop(toks, st) ==
    IF st.panic \/ IsAtEof(toks, st.pos) THEN st ELSE ScanLoop(toks, ScanToken(toks, st))

\* lines 652-660: after the loop, which left st
AfterScan(toks, st) ==
    IF st.panic THEN [panic |-> TRUE, elements |-> st.elements, stack |-> st.stack]
    ELSE ResolveEmphasis(PushBuffer(st.elements, st.buffer), ClassifyAll(st.stack, toks))

\* parse_inline as a function: [panic, elements, stack]
ParseInline(toks) == AfterScan(toks, ScanLoop(toks, ScanStart))

(***************************************************************************)
(* MdBlockElement and MdTableCell (types.rs, spec section 3).  PanicBlock  *)
(* stands for a call of parse_block that panicked in parse_inline.         *)
(***************************************************************************)
Paragraph(content) == [t |-> "Paragraph", content |-> content]
Header(level, content) == [t |-> "Header", level |-> level, content |-> content]
Table(headers, body) == [t |-> "Table", headers |-> headers, body |-> body]
ThematicBreakBlock == [t |-> "ThematicBreak"]
CodeBlock(language, lines) == [t |-> "CodeBlock", language |-> language, lines |-> lines]
RawHtml(content) == [t |-> "RawHtml", content |-> content]
BlockQuote(content) == [t |-> "BlockQuote", content |-> content]
UnorderedList(items) == [t |-> "UnorderedList", items |-> items]
OrderedList(items) == [t |-> "OrderedList", items |-> items]
ListItem(content) == [content |-> content]
NoBlock == [t |-> "None"]
PanicBlock == [t |-> "Panic"]
TableCell(content, alignment, is_header) ==
    [content |-> content, alignment |-> alignment, is_header |-> is_header]

RECURSIVE SplitFrom(_, _, _, _)
SplitFrom(toks, kind, k, piece) ==
    IF k > Len(toks) THEN <<piece>>
    ELSE IF toks[k].k = kind THEN <<piece>> \o SplitFrom(toks, kind, k + 1, <<>>)
    ELSE SplitFrom(toks, kind, k + 1, Append(piece, toks[k]))

\* slice::split(|token| token == &Token::<kind>): the pieces between the
\* separators, the empty ones included
Split(toks, kind) == SplitFrom(toks, kind, 1, <<>>)

\* lines 441-443, 459-461, 65-67: Paragraph { content: parse_inline(line) }
ParagraphFrom(r) == IF r.panic THEN PanicBlock ELSE Paragraph(r.elements)

ParagraphOf(line) == ParagraphFrom(ParseInline(line))

(***************************************************************************)
(* parse_heading                                                           *)
(***************************************************************************)
RECURSIVE CountHashes(_, _)
\* lines 423-437: the number of leading Punctuation("#") tokens
CountHashes(line, n) ==
    IF n < Len(line) /\ line[n + 1] = Punctuation("#")
    THEN CountHashes(line, n + 1)
    ELSE n

\* lines 446-449
HeaderFrom(level, r) == IF r.panic THEN PanicBlock ELSE Header(level, r.elements)

HeaderOf(level, rest) == HeaderFrom(level, ParseInline(rest))

\* lines 422-450
HeadingOf(line, n) ==
    IF n >= Len(line) \/ line[n + 1] # Whitespace
    THEN ParagraphOf(line)
    ELSE HeaderOf(n, SubSeq(line, n + 2, Len(line)))

\* lines 422-450
ParseHeading(line) == HeadingOf(line, CountHashes(line, 0))

(***************************************************************************)
(* parse_table and split_row                                               *)
(***************************************************************************)
\* lines 533-542: the first cell is dropped when empty, then the last
TrimCells(cells) ==
    IF cells[1] # <<>>
    THEN IF cells[Len(cells)] = <<>> THEN SubSeq(cells, 1, Len(cells) - 1) ELSE cells
    ELSE IF Len(cells) > 1 /\ cells[Len(cells)] = <<>>
    THEN SubSeq(cells, 2, Len(cells) - 1)
    ELSE Tail(cells)

\* lines 528-545
SplitRow(row) == TrimCells(Split(row, "TableCellSeparator"))

\* lines 473-484: the tokens of an alignment cell that contribute to its text
AlignmentTokens(cell) ==
    SelectSeq(cell, LAMBDA token : token.k \in {"Text", "Punctuation", "ThematicBreak"})

\* lines 486-491: a contributing token is never empty, a Text token holds word
\* characters and a Punctuation token one character, so the text starts (ends)
\* with ':' exactly when its first (last) contributing token is Punctuation(":")
AlignmentFrom(parts) ==
    CASE parts = <<>> -> "None"
      [] parts # <<>> /\ parts[1] = Punctuation(":")
            /\ parts[Len(parts)] = Punctuation(":") -> "Center"
      [] parts # <<>> /\ parts[1] = Punctuation(":")
            /\ parts[Len(parts)] # Punctuation(":") -> "Left"
      [] parts # <<>> /\ parts[1] # Punctuation(":")
            /\ parts[Len(parts)] = Punctuation(":") -> "Right"
      [] OTHER -> "None"

AlignmentOf(cell) == AlignmentFrom(AlignmentTokens(cell))

AlignmentsFrom(cells) == [k \in 1..Len(cells) |-> AlignmentOf(cells[k])]

\* lines 470-493
Alignments(row) == AlignmentsFrom(SplitRow(row))

\* lines 498-502, 512-516: one cell, its tokens parsed as inline to r
CellFrom(r, k, alignments, is_header) ==
    [panic |-> r.panic,
     cell |-> TableCell(r.elements,
                        IF k <= Len(alignments) THEN alignments[k] ELSE "None",
                        is_header)]

CellsFrom(cells, alignments, is_header) ==
    [k \in 1..Len(cells) |-> CellFrom(ParseInline(cells[k]), k, alignments, is_header)]

\* lines 495-503, 509-517: the cells of a row
RowCells(row, alignments, is_header) == CellsFrom(SplitRow(row), alignments, is_header)

\* lines 505-519
BodyRowsOf(rows, alignments) ==
    [k \in 1..(Len(rows) - 2) |-> RowCells(rows[k + 2], alignments, FALSE)]

\* lines 495-521: the Table of the parsed header cells and body rows, or the
\* panic of one of their cells
TableFrom(headers, body) ==
    IF \/ \E k \in 1..Len(headers) : headers[k].panic
       \/ \E k \in 1..Len(body) : \E c \in 1..Len(body[k]) : body[k][c].panic
    THEN PanicBlock
    ELSE Table([k \in 1..Len(headers) |-> headers[k].cell],
               [k \in 1..Len(body) |-> [c \in 1..Len(body[k]) |-> body[k][c].cell]])

\* lines 464-521: the Table of three or more rows
TableWith(rows, alignments) ==
    TableFrom(RowCells(rows[1], alignments, TRUE), BodyRowsOf(rows, alignments))

TableOf(rows) == TableWith(rows, Alignments(rows[2]))

\* RowsOf with the header and the alignment row taken for a whole table
RowsOfTwo(line, rows) == IF Len(rows) < 2 THEN ParagraphOf(line) ELSE TableOf(rows)

\* lines 458-521
RowsOf(line, rows) == IF Len(rows) < 3 THEN ParagraphOf(line) ELSE TableOf(rows)

\* lines 453-522
ParseTable(line) == RowsOf(line, Split(line, "Newline"))

(***************************************************************************)
(* group_lines_to_blocks.  g holds blocks and is_inside_code_block; an arm *)
(* gives [blocks, current, inside]: the blocks as it leaves them, what it  *)
(* put into current_block, and the fence mode.                             *)
(***************************************************************************)
\* line 1039: the last block, or an empty one
PreviousBlock(blks) == IF blks = <<>> THEN <<>> ELSE blks[Len(blks)]

\* Vec::pop
Pop(blks) == IF blks = <<>> THEN <<>> ELSE SubSeq(blks, 1, Len(blks) - 1)

\* Option::first and get(1) of a token slice
First(line) == IF line = <<>> THEN NoToken ELSE line[1]
Second(line) == IF Len(line) < 2 THEN NoToken ELSE line[2]

\* lines 1272-1285; the separator is <<>> for None
AttachToPreviousBlock(blks, line, separator) ==
    Append(Pop(blks), PreviousBlock(blks) \o separator \o line)

Attached(g, line, separator) ==
    [blocks |-> AttachToPreviousBlock(g.blocks, line, separator), current |-> <<>>,
     inside |-> g.inside]

\* current_block.extend_from_slice(line)
Extended(g, line) == [blocks |-> g.blocks, current |-> line, inside |-> g.inside]

\* blocks.push(line.to_owned())
Pushed(g, line) == [blocks |-> Append(g.blocks, line), current |-> <<>>, inside |-> g.inside]

\* lines 1078-1082, 1489-1493: the previous block becomes a setext heading 2
SetextHeadingTwo(g) ==
    [blocks |-> Append(Pop(g.blocks),
                       <<Punctuation("#"), Punctuation("#"), Whitespace>>
                           \o PreviousBlock(g.blocks)),
     current |-> <<>>, inside |-> g.inside]

\* lines 1232-1239
GroupSetextHeadingOne(g) ==
    [blocks |-> Append(Pop(g.blocks),
                       <<Punctuation("#"), Whitespace>> \o PreviousBlock(g.blocks)),
     current |-> <<>>, inside |-> g.inside]

IsSpace(token) == token.k \in {"Whitespace", "Tab", "Newline"}

RECURSIVE SkipSpaces(_)
\* skip_while over Whitespace, Tab and Newline
SkipSpaces(line) ==
    IF line # <<>> /\ IsSpace(Head(line)) THEN SkipSpaces(Tail(line)) ELSE line

\* the first token that is no Whitespace, Tab or Newline, if any
FirstContent(line) == First(SkipSpaces(line))

IsDashList(b) == First(b) = Punctuation("-") /\ Second(b) = Whitespace
IsOrderedList(b) == First(b).k = "OrderedListMarker" /\ Second(b) = Whitespace

\* A line inside a fenced code block pushed as a block of its own
GroupInsideFencePushed(g, line) == Pushed(g, line)

\* lines 1041-1045: inside a fenced code block, a line that starts with no fence
GroupInsideFence(g, line) == Attached(g, line, <<Newline>>)

\* lines 1046-1052: inside a fenced code block, a line that starts with a fence
GroupClosingFence(g, line) ==
    [blocks |-> AttachToPreviousBlock(g.blocks, line, <<>>), current |-> <<>>,
     inside |-> FALSE]

\* lines 1055-1058
GroupAtxHeading(g, line) == Pushed(g, line)

\* lines 1466-1501
GroupDashedLines(g, line) ==
    CASE PreviousBlock(g.blocks) = <<>> -> Extended(g, line)
      [] IsDashList(PreviousBlock(g.blocks)) -> Attached(g, line, <<Newline>>)
      [] First(PreviousBlock(g.blocks)) = Punctuation("#") -> Pushed(g, line)
      [] OTHER -> IF Len(line) > 1 THEN Extended(g, line) ELSE SetextHeadingTwo(g)

\* lines 1298-1375
GroupTabbedLines(g, line) ==
    CASE Len(line) = 1 -> Extended(g, line)
      [] Len(line) # 1 /\ FirstContent(line).k = "RawHtmlTag"
            /\ First(PreviousBlock(g.blocks)).k = "RawHtmlTag" ->
            Attached(g, SkipSpaces(line), <<Newline>>)
      [] Len(line) # 1 /\ FirstContent(line).k = "RawHtmlTag"
            /\ First(PreviousBlock(g.blocks)).k # "RawHtmlTag" ->
            Extended(g, SkipSpaces(line))
      [] OTHER ->
            IF \/ IsDashList(PreviousBlock(g.blocks))
               \/ IsOrderedList(PreviousBlock(g.blocks))
               \/ First(PreviousBlock(g.blocks)).k \in {"RawHtmlTag", "Tab"}
            THEN Attached(g, line, <<Newline>>)
            ELSE Extended(g, line)

\* lines 1250-1269
GroupOrderedList(g, line) ==
    IF IsOrderedList(PreviousBlock(g.blocks))
    THEN Attached(g, line, <<Newline>>)
    ELSE Extended(g, line)

\* lines 1068-1088
GroupThematicBreak(g, line) ==
    CASE PreviousBlock(g.blocks) = <<>> -> Extended(g, line)
      [] First(PreviousBlock(g.blocks)) = Punctuation("#") -> Pushed(g, line)
      [] First(PreviousBlock(g.blocks)) = Newline -> Pushed(g, line)
      [] OTHER -> SetextHeadingTwo(g)

\* lines 1089-1104
GroupBlockQuote(g, line) ==
    IF First(PreviousBlock(g.blocks)) = BlockQuoteMarker
    THEN Attached(g, line, <<Newline>>)
    ELSE Extended(g, line)

\* lines 1105-1107
GroupCodeTick(g, line) == Extended(g, line)

\* lines 1108-1118: a fence outside a fenced code block opens one
GroupOpeningFence(g, line) == [blocks |-> g.blocks, current |-> line, inside |-> TRUE]

\* lines 1204-1224
GroupTextLines(g, line) ==
    IF First(PreviousBlock(g.blocks)).k = "Text"
    THEN Attached(g, line, <<Whitespace>>)
    ELSE Extended(g, line)

\* lines 1120-1124: anything but "=", whitespace, tabs and newlines after the first token
HasTrailingContent(line) ==
    \E k \in 2..Len(line) : line[k] # Text("=") /\ ~IsSpace(line[k])

\* lines 1119-1141
GroupEquals(g, line) ==
    CASE PreviousBlock(g.blocks) = <<>> -> Extended(g, line)
      [] PreviousBlock(g.blocks) # <<>> /\ ~HasTrailingContent(line)
            /\ First(PreviousBlock(g.blocks)).k = "Text" -> GroupSetextHeadingOne(g)
      [] OTHER -> GroupTextLines(g, line)

\* lines 1179-1194
GroupTableRows(g, line) ==
    IF First(PreviousBlock(g.blocks)) = TableCellSeparator
    THEN Attached(g, line, <<Newline>>)
    ELSE Extended(g, line)

\* lines 1385-1455
GroupLinesWithLeadingWhitespace(g, line) ==
    CASE FirstContent(line) = NoToken ->
            [blocks |-> g.blocks, current |-> <<>>, inside |-> g.inside]
      [] FirstContent(line) # NoToken /\ PreviousBlock(g.blocks) = <<>> -> Extended(g, line)
      [] FirstContent(line) # NoToken /\ First(PreviousBlock(g.blocks)) = Whitespace ->
            Attached(g, line, <<Newline>>)
      [] FirstContent(line) # NoToken /\ First(PreviousBlock(g.blocks)).k = "RawHtmlTag" ->
            IF FirstContent(line).k = "RawHtmlTag"
            THEN Attached(g, line, <<Newline>>) ELSE Extended(g, line)
      [] FirstContent(line) # NoToken /\ First(PreviousBlock(g.blocks)) = Punctuation("-") ->
            IF FirstContent(line).k = "Punctuation"
            THEN Attached(g, line, <<Newline>>) ELSE Extended(g, line)
      [] FirstContent(line) # NoToken
            /\ First(PreviousBlock(g.blocks)).k \in {"Text", "Punctuation"}
            /\ First(PreviousBlock(g.blocks)) # Punctuation("-") ->
            Attached(g, line, <<Newline>>)
      [] OTHER -> Extended(g, SkipSpaces(line))

\* lines 1156-1159: everything else
GroupOther(g, line) == Extended(g, line)

\* The arm of lines 1041-1160 a line is handled by
LineArm(inside, line) ==
    CASE inside /\ First(line) # CodeFence -> "InsideFence"
      [] inside /\ First(line) = CodeFence -> "ClosingFence"
      [] ~inside /\ First(line) = Punctuation("#") -> "AtxHeading"
      [] ~inside /\ First(line) = Punctuation("-") -> "Dashed"
      [] ~inside /\ First(line) = Tab -> "Tabbed"
      [] ~inside /\ First(line).k = "OrderedListMarker" -> "Ordered"
      [] ~inside /\ First(line) = ThematicBreak -> "ThematicBreak"
      [] ~inside /\ First(line) = BlockQuoteMarker -> "BlockQuote"
      [] ~inside /\ First(line) = CodeTick -> "CodeTick"
      [] ~inside /\ First(line) = CodeFence -> "OpeningFence"
      [] ~inside /\ First(line) = Text("=") -> "Equals"
      [] ~inside /\ First(line).k = "Text" /\ First(line) # Text("=") -> "Text"
      [] ~inside /\ First(line) = TableCellSeparator -> "TableRow"
      [] ~inside /\ First(line) = Whitespace -> "LeadingWhitespace"
      [] OTHER -> "Other"

\* lines 1041-1160: the arm's effect
GroupArm(g, line) ==
    CASE LineArm(g.inside, line) = "InsideFence" -> GroupInsideFence(g, line)
      [] LineArm(g.inside, line) = "ClosingFence" -> GroupClosingFence(g, line)
      [] LineArm(g.inside, line) = "AtxHeading" -> GroupAtxHeading(g, line)
      [] LineArm(g.inside, line) = "Dashed" -> GroupDashedLines(g, line)
      [] LineArm(g.inside, line) = "Tabbed" -> GroupTabbedLines(g, line)
      [] LineArm(g.inside, line) = "Ordered" -> GroupOrderedList(g, line)
      [] LineArm(g.inside, line) = "ThematicBreak" -> GroupThematicBreak(g, line)
      [] LineArm(g.inside, line) = "BlockQuote" -> GroupBlockQuote(g, line)
      [] LineArm(g.inside, line) = "CodeTick" -> GroupCodeTick(g, line)
      [] LineArm(g.inside, line) = "OpeningFence" -> GroupOpeningFence(g, line)
      [] LineArm(g.inside, line) = "Equals" -> GroupEquals(g, line)
      [] LineArm(g.inside, line) = "Text" -> GroupTextLines(g, line)
      [] LineArm(g.inside, line) = "TableRow" -> GroupTableRows(g, line)
      [] LineArm(g.inside, line) = "LeadingWhitespace" ->
            GroupLinesWithLeadingWhitespace(g, line)
      [] OTHER -> GroupOther(g, line)

\* current_block pushed whether it is empty or not
AfterArmAlways(a) == [blocks |-> Append(a.blocks, a.current), inside |-> a.inside]

\* lines 1162-1166: a non-empty current_block is pushed
AfterArm(a) ==
    [blocks |-> IF a.current = <<>> THEN a.blocks ELSE Append(a.blocks, a.current),
     inside |-> a.inside]

\* lines 1038-1167: one iteration of the loop over the lines
GroupLine(g, line) == AfterArm(GroupArm(g, line))

RECURSIVE GroupLoop(_, _, _)
GroupLoop(lines, k, g) ==
    IF k > Len(lines) THEN g.blocks ELSE GroupLoop(lines, k + 1, GroupLine(g, lines[k]))

\* lines 1033-1037
GroupStart == [blocks |-> <<>>, inside |-> FALSE]

\* lines 1032-1169
GroupLinesToBlocks(lines) == GroupLoop(lines, 1, GroupStart)

(***************************************************************************)
(* parse_codeblock, parse_indented_codeblock and parse_raw_html            *)
(***************************************************************************)
\* push_buffer_to_collection on a Vec<String>: a non-empty buffer is pushed
PushLine(coll, buf) == IF buf = "" THEN coll ELSE Append(coll, buf)

\* str::replace of '<' and '>' (lines 395, 122), for the tags of the model
EscapedTag(s) ==
    CASE s = "<b>" -> "&lt;b&gt;"
      [] s = "</b>" -> "&lt;/b&gt;"
      [] OTHER -> s

\* lines 86-125: what a token adds to a line of an indented code block
IndentedText(token) ==
    CASE token.k \in {"Text", "Punctuation", "OrderedListMarker"} -> token.s
      [] token.k = "Tab" -> Repeat(" ", TabSize)
      [] token.k = "Whitespace" -> " "
      [] token.k = "Escape" -> "\\" \o token.s
      [] token.k = "EmphasisRun" -> Repeat(token.delimiter, token.length)
      [] token.k = "OpenParenthesis" -> "("
      [] token.k = "CloseParenthesis" -> ")"
      [] token.k = "OpenBracket" -> "["
      [] token.k = "CloseBracket" -> "]"
      [] token.k = "TableCellSeparator" -> "|"
      [] token.k = "CodeTick" -> Backtick
      [] token.k = "CodeFence" -> Repeat(Backtick, 3)
      [] token.k = "BlockQuoteMarker" -> ">"
      [] token.k = "ThematicBreak" -> "---"
      [] token.k = "RawHtmlTag" -> EscapedTag(token.s)
      [] OTHER -> ""

\* lines 368-400: what a token adds to a line of a fenced code block
FencedText(token) == IF token.k = "CodeFence" THEN "" ELSE IndentedText(token)

RECURSIVE FencedLineText(_)
FencedLineText(row) ==
    IF row = <<>> THEN "" ELSE FencedText(Head(row)) \o FencedLineText(Tail(row))

RECURSIVE IndentedLineText(_)
IndentedLineText(row) ==
    IF row = <<>> THEN "" ELSE IndentedText(Head(row)) \o IndentedLineText(Tail(row))

RECURSIVE FencedLines(_, _)
\* lines 362-403: an empty row is passed over, the text of another is pushed
FencedLines(rows, code_content) ==
    IF rows = <<>> THEN code_content
    ELSE FencedLines(Tail(rows), PushLine(code_content, FencedLineText(Head(rows))))

RECURSIVE IndentedLines(_, _)
\* lines 78-129: the first token of a row is left out
IndentedLines(rows, code_content) ==
    IF rows = <<>> THEN code_content
    ELSE IF Head(rows) = <<>> THEN IndentedLines(Tail(rows), code_content)
    ELSE IndentedLines(Tail(rows),
                       PushLine(code_content, IndentedLineText(Tail(Head(rows)))))

\* lines 357-360: the language and the rows that are left
HasLanguage(line) == Second(line).k = "Text"

\* lines 350-411
ParseCodeblock(line) ==
    CodeBlock(IF HasLanguage(line) THEN <<line[2].s>> ELSE <<>>,
              FencedLines(IF HasLanguage(line) THEN Tail(Split(line, "Newline"))
                          ELSE Split(line, "Newline"), <<>>))

\* lines 82-135
ParseIndentedCodeblock(line) == CodeBlock(<<>>, IndentedLines(Split(line, "Newline"), <<>>))

\* lines 146-171: what a token adds to html_content
HtmlText(token) ==
    CASE token.k = "RawHtmlTag" -> token.s
      [] token.k = "Newline" -> "\n"
      [] OTHER -> IndentedText(token)

RECURSIVE HtmlContent(_)
HtmlContent(line) ==
    IF line = <<>> THEN "" ELSE HtmlText(Head(line)) \o HtmlContent(Tail(line))

\* lines 144-176
ParseRawHtml(line) == RawHtml(HtmlContent(line))

RECURSIVE ParseBlock(_)
RECURSIVE ParseBlocks(_)
(***************************************************************************)
(* parse_list, parse_ordered_list and parse_unordered_list                 *)
(***************************************************************************)
\* lines 231-236, 253-257: the is_list_item closures
IsListItem(kind, toks) ==
    IF kind = "Ordered" THEN IsOrderedList(toks) ELSE IsDashList(toks)

\* lines 238, 260: the make_block closures
MakeList(kind, items) ==
    IF kind = "Ordered" THEN OrderedList(items) ELSE UnorderedList(items)

RECURSIVE StripTabs(_)
\* lines 298-300
StripTabs(line) == IF line # <<>> /\ Head(line) = Tab THEN StripTabs(Tail(line)) ELSE line

RECURSIVE NestedEnd(_, _)
\* lines 293-306: the index of the first row from stop on that starts with no Tab
NestedEnd(rows, stop) ==
    IF stop < Len(rows) /\ First(rows[stop + 1]) = Tab THEN NestedEnd(rows, stop + 1) ELSE stop

RECURSIVE NestedTokens(_, _, _)
\* lines 298-317: the rows from..to-1, stripped of their tabs, with a Newline
\* between them
NestedTokens(rows, from, to) ==
    IF from >= to THEN <<>>
    ELSE StripTabs(rows[from + 1])
            \o (IF from + 1 < to THEN <<Newline>> ELSE <<>>)
            \o NestedTokens(rows, from + 1, to)

\* Option<MdBlockElement> pushed as a list item when it is Some
PushItem(items, content) ==
    IF content = NoBlock THEN items ELSE Append(items, ListItem(content))

RECURSIVE ParseList(_, _)
RECURSIVE ListLoop(_, _, _, _)
\* parse_list with every nested list taken for an unordered one
NestedListUnordered(nested_tokens) == ParseList(nested_tokens, "Unordered")

\* lines 320-326: the nested list of the nested tokens
NestedList(nested_tokens) ==
    IF First(nested_tokens).k = "OrderedListMarker"
    THEN ParseList(nested_tokens, "Ordered")
    ELSE ParseList(nested_tokens, "Unordered")

\* lines 291-334: after the item at row idx, whose nested rows end before stop
AfterItem(rows, idx, stop, kind, items) ==
    IF stop = idx + 1
    THEN ListLoop(rows, idx + 1, kind, items)
    ELSE ListLoop(rows, stop, kind,
                  Append(items, ListItem(NestedList(NestedTokens(rows, idx + 1, stop)))))

\* lines 283-337
ListLoop(rows, idx, kind, items) ==
    IF idx >= Len(rows) THEN items
    ELSE IF ~IsListItem(kind, rows[idx + 1]) THEN ListLoop(rows, idx + 1, kind, items)
    ELSE AfterItem(rows, idx, NestedEnd(rows, idx + 1), kind,
                   PushItem(items, ParseBlock(SubSeq(rows[idx + 1], 3, Len(rows[idx + 1])))))

\* lines 273-339, with parse_ordered_list (228-242) and parse_unordered_list (250-262)
ParseList(list, kind) == MakeList(kind, ListLoop(Split(list, "Newline"), 0, kind, <<>>))

(***************************************************************************)
(* parse_blockquote                                                        *)
(***************************************************************************)
\* lines 193-203: a row without its marker and the space after it
StripMarker(toks) ==
    IF First(toks) = BlockQuoteMarker /\ Second(toks) = Whitespace
    THEN SubSeq(toks, 3, Len(toks))
    ELSE IF First(toks) = BlockQuoteMarker THEN Tail(toks)
    ELSE toks

StripMarkers(rows) == [k \in 1..Len(rows) |-> StripMarker(rows[k])]

\* parse_blockquote without the test of line 210
BlockQuoteAlways(line, content) == BlockQuote(content)

\* lines 210-216
BlockQuoteOf(line, content) ==
    IF content = <<>> THEN ParagraphOf(line) ELSE BlockQuote(content)

\* lines 187-217
ParseBlockquote(line) ==
    BlockQuoteOf(line, ParseBlocks(GroupLinesToBlocks(StripMarkers(Split(line, "Newline")))))

(***************************************************************************)
(* parse_block and parse_blocks                                            *)
(***************************************************************************)
\* line 65: a first token (or none) of the last arm
IsParagraphStart(line) ==
    \/ line = <<>>
    \/ /\ line # <<>>
       /\ line[1].k \notin {"OrderedListMarker", "CodeFence", "ThematicBreak",
                            "TableCellSeparator", "BlockQuoteMarker", "RawHtmlTag",
                            "Tab", "Newline"}
       /\ line[1] # Punctuation("#")
       /\ line[1] # Punctuation("-")

\* lines 42-69
ParseBlock(line) ==
    CASE IsParagraphStart(line) -> ParagraphOf(line)
      [] First(line) = Punctuation("#") -> ParseHeading(line)
      [] First(line) = Punctuation("-") ->
            IF Len(line) = 1 THEN ThematicBreakBlock ELSE ParseList(line, "Unordered")
      [] First(line).k = "OrderedListMarker" -> ParseList(line, "Ordered")
      [] First(line) = CodeFence -> ParseCodeblock(line)
      [] First(line) = ThematicBreak -> ThematicBreakBlock
      [] First(line) = TableCellSeparator -> ParseTable(line)
      [] First(line) = BlockQuoteMarker -> ParseBlockquote(line)
      [] First(line).k = "RawHtmlTag" -> ParseRawHtml(line)
      [] First(line) = Tab -> ParseIndentedCodeblock(line)
      [] First(line) = Newline -> NoBlock

\* lines 27-29: an element that is Some is pushed
PushElement(block_elements, element) ==
    IF element = NoBlock THEN block_elements ELSE Append(block_elements, element)

RECURSIVE ParseBlocksLoop(_, _, _)
\* lines 26-30
ParseBlocksLoop(markdown_lines, k, block_elements) ==
    IF k > Len(markdown_lines) THEN block_elements
    ELSE ParseBlocksLoop(markdown_lines, k + 1,
                         PushElement(block_elements, ParseBlock(markdown_lines[k])))

\* lines 23-33
ParseBlocks(markdown_lines) == ParseBlocksLoop(markdown_lines, 1, <<>>)

(***************************************************************************)
(* The token sequences parse_inline is run on.                             *)
(***************************************************************************)
SeqsUpTo(S, n) == UNION {[1..m -> S] : m \in 0..n}

\* What the lexer can produce: runs of one emphasis character and word
\* characters are maximal, so no two such tokens are adjacent
Lexable(s) ==
    \A k \in 1..(Len(s) - 1) :
        /\ ~(s[k].k = "Text" /\ s[k + 1].k = "Text")
        /\ ~(s[k].k = "EmphasisRun" /\ s[k + 1].k = "EmphasisRun"
             /\ s[k].delimiter = s[k + 1].delimiter)

EmphAlphabet ==
    {EmphasisRun("*", n) : n \in 1..MaxRun}
        \cup {EmphasisRun("_", 1), Text("a"), Whitespace}

EmphInputs == {s \in SeqsUpTo(EmphAlphabet, MaxEmphTokens) : Lexable(s)}

\* Runs next to punctuation, which can both open and close
RuleAlphabet == {EmphasisRun("*", n) : n \in 1..MaxRun} \cup {Text("a"), Punctuation(".")}

RuleInputs == {s \in SeqsUpTo(RuleAlphabet, MaxRuleTokens) : Lexable(s)}

\* The same sequences as the label of a link: [ ... ](u)
LabelInputs ==
    {<<OpenBracket>> \o s \o <<CloseBracket, OpenParenthesis, Text("u"), CloseParenthesis>> :
        s \in EmphInputs}

LinkAlphabet ==
    {OpenBracket, CloseBracket, OpenParenthesis, CloseParenthesis,
     Text("a"), Whitespace, Punctuation("\"")}

LinkInputs ==
    {<<OpenBracket>> \o s : s \in SeqsUpTo(LinkAlphabet, MaxLinkTokens)}
        \cup {<<Punctuation("!"), OpenBracket>> \o s :
                s \in SeqsUpTo(LinkAlphabet, MaxLinkTokens - 1)}

CodeAlphabet == {CodeTick, Text("a"), Whitespace, Tab, EmphasisRun("*", 1), Punctuation("!")}

CodeInputs == {s \in SeqsUpTo(CodeAlphabet, MaxCodeTokens) : Lexable(s)}

\* Inputs of the specification's scenarios, longer than the enumerated ones
Scenarios ==
    { \* ".*.a *b***"
      <<Punctuation("."), EmphasisRun("*", 1), Punctuation("."), Text("a"), Whitespace,
        EmphasisRun("*", 1), Text("b"), EmphasisRun("*", 3)>>,
      \* "**a *b* c**"
      <<EmphasisRun("*", 2), Text("a"), Whitespace, EmphasisRun("*", 1), Text("b"),
        EmphasisRun("*", 1), Whitespace, Text("c"), EmphasisRun("*", 2)>>,
      \* "**a * b**"
      <<EmphasisRun("*", 2), Text("a"), Whitespace, EmphasisRun("*", 1), Whitespace,
        Text("b"), EmphasisRun("*", 2)>>,
      \* [a](u "t")
      <<OpenBracket, Text("a"), CloseBracket, OpenParenthesis, Text("u"), Whitespace,
        Punctuation("\""), Text("t"), Punctuation("\""), CloseParenthesis>>,
      \* [a](u "t)
      <<OpenBracket, Text("a"), CloseBracket, OpenParenthesis, Text("u"), Whitespace,
        Punctuation("\""), Text("t"), CloseParenthesis>>,
      \* [a](u ")
      <<OpenBracket, Text("a"), CloseBracket, OpenParenthesis, Text("u"), Whitespace,
        Punctuation("\""), CloseParenthesis>> }

InlineInputs ==
    EmphInputs \cup RuleInputs \cup LabelInputs \cup LinkInputs \cup CodeInputs \cup Scenarios

(***************************************************************************)
(* parse_inline as a state machine: the scan, then resolve_emphasis step   *)
(* by step on the top-level element list.                                  *)
(***************************************************************************)
NoDelimiter ==
    [ch |-> "", run_length |-> 0, token_position |-> 0, parsed_position |-> 0,
     active |-> FALSE, can_open |-> FALSE, can_close |-> FALSE]

ScanState ==
    [pos |-> pos, buffer |-> buffer, elements |-> elements, stack |-> delimiter_stack,
     panic |-> FALSE]

ApplyScan(st) ==
    /\ pos' = st.pos
    /\ buffer' = st.buffer
    /\ elements' = st.elements
    /\ delimiter_stack' = st.stack
    /\ pc' = IF st.panic THEN "panic" ELSE "scan"
    /\ UNCHANGED <<tokens, i, j, closer, blockVars, docVars, lexVars, poolVars>>

Scanning == pc = "scan" /\ ~IsAtEof(tokens, pos)

\* lines 572-586
ScanEmphasisRun ==
    /\ Scanning
    /\ Current(tokens, pos).k = "EmphasisRun"
    /\ ApplyScan(ScanEmphasis(tokens, ScanState))

\* lines 587-597
ScanOpenBracket ==
    /\ Scanning
    /\ Current(tokens, pos).k = "OpenBracket"
    /\ ApplyScan(ScanLinkType(tokens, ScanState, "Link"))

\* lines 598-614
ScanCodeTick ==
    /\ Scanning
    /\ Current(tokens, pos).k = "CodeTick"
    /\ ApplyScan(ScanCode(tokens, ScanState))

\* lines 615-634, the '!' before '['
ScanImage ==
    /\ Scanning
    /\ IsImageStart(tokens, pos)
    /\ ApplyScan(ScanLinkType(tokens, ScanState, "Image"))

\* lines 617-620 and 635-645
ScanText ==
    /\ Scanning
    /\ Current(tokens, pos).k \notin {"EmphasisRun", "OpenBracket", "CodeTick"}
    /\ ~IsImageStart(tokens, pos)
    /\ ~IsFlushOnly(Current(tokens, pos))
    /\ ApplyScan(ScanPlain(tokens, ScanState))

\* line 646
ScanFlushOnly ==
    /\ Scanning
    /\ IsFlushOnly(Current(tokens, pos))
    /\ ApplyScan(ScanFlush(tokens, ScanState))

\* lines 652-658 and 915-923: at the end of the tokens the buffer is flushed,
\* the delimiters are classified and resolve_emphasis is entered
EndOfTokens ==
    /\ pc = "scan"
    /\ IsAtEof(tokens, pos)
    /\ LET flushed == PushBuffer(elements, buffer)
           stack == ClassifyAll(delimiter_stack, tokens)
       IN /\ buffer' = ""
          /\ delimiter_stack' = stack
          /\ IF Len(stack) = 1
             THEN elements' = SingleDelimiter(flushed, stack) /\ pc' = "done"
             ELSE elements' = flushed /\ pc' = "outer"
    /\ i' = 0
    /\ UNCHANGED <<tokens, pos, j, closer, blockVars, docVars, lexVars, poolVars>>

\* line 926: the delimiter at i is no closer
NextCloser ==
    /\ pc = "outer"
    /\ i < Len(delimiter_stack)
    /\ ~IsCloser(delimiter_stack[i + 1])
    /\ i' = i + 1
    /\ UNCHANGED <<tokens, pos, buffer, elements, delimiter_stack, j, closer, pc, blockVars, docVars, lexVars, poolVars>>

\* lines 931-933: the closer is cloned and the backward scan starts
TakeCloser ==
    /\ pc = "outer"
    /\ i < Len(delimiter_stack)
    /\ IsCloser(delimiter_stack[i + 1])
    /\ closer' = delimiter_stack[i + 1]
    /\ j' = i - 1
    /\ pc' = "inner"
    /\ UNCHANGED <<tokens, pos, buffer, elements, delimiter_stack, i, blockVars, docVars, lexVars, poolVars>>

\* lines 934-954: the delimiter at j is passed over
SkipOpener ==
    /\ pc = "inner"
    /\ j >= 0
    /\ ~OpenerMatches(delimiter_stack[j + 1], closer)
    /\ j' = j - 1
    /\ UNCHANGED <<tokens, pos, buffer, elements, delimiter_stack, i, closer, pc, blockVars, docVars, lexVars, poolVars>>

\* lines 956-1011: the delimiter at j is paired with the clone of the closer
Pair ==
    /\ pc = "inner"
    /\ j >= 0
    /\ OpenerMatches(delimiter_stack[j + 1], closer)
    /\ LET r == PairRange(delimiter_stack[j + 1], closer)
       IN /\ ~PairPanics(elements, r)
          /\ elements' = Splice(elements, r)
          /\ delimiter_stack' = StackAfterPair(delimiter_stack, i, j, closer, r)
    /\ j' = j - 1
    /\ UNCHANGED <<tokens, pos, buffer, i, closer, pc, blockVars, docVars, lexVars, poolVars>>

\* lines 979-987: the slice or the splice of a pairing is out of bounds
PairPanic ==
    /\ pc = "inner"
    /\ j >= 0
    /\ OpenerMatches(delimiter_stack[j + 1], closer)
    /\ PairPanics(elements, PairRange(delimiter_stack[j + 1], closer))
    /\ pc' = "panic"
    /\ UNCHANGED <<tokens, pos, buffer, elements, delimiter_stack, i, j, closer, blockVars, docVars, lexVars, poolVars>>

\* line 933: the backward scan is over
EndBackwardScan ==
    /\ pc = "inner"
    /\ j < 0
    /\ i' = i + 1
    /\ pc' = "outer"
    /\ UNCHANGED <<tokens, pos, buffer, elements, delimiter_stack, j, closer, blockVars, docVars, lexVars, poolVars>>

\* lines 1015-1022
Finalize ==
    /\ pc = "outer"
    /\ i >= Len(delimiter_stack)
    /\ elements' = RewriteActive(elements, delimiter_stack, 1)
    /\ pc' = "done"
    /\ UNCHANGED <<tokens, pos, buffer, delimiter_stack, i, j, closer, blockVars, docVars, lexVars, poolVars>>

(***************************************************************************)
(* The blocks parse_block is run on.                                       *)
(***************************************************************************)
Hashes(n) == [k \in 1..n |-> Punctuation("#")]

HeadingTails ==
    {<<>>, <<Whitespace>>, <<Text("a")>>, <<Whitespace, Text("a")>>,
     <<Whitespace, Text("a"), Whitespace, Text("b")>>,
     <<Whitespace, EmphasisRun("*", 1), Text("a"), EmphasisRun("*", 1)>>,
     <<Whitespace, Punctuation("#")>>}

HeadingInputs == {Hashes(n) \o tail : n \in 1..MaxHashes, tail \in HeadingTails}

RECURSIVE Join(_, _)
\* The pieces with one separator token between them
Join(pieces, sep) ==
    IF pieces = <<>> THEN <<>>
    ELSE IF Len(pieces) = 1 THEN pieces[1]
    ELSE pieces[1] \o <<sep>> \o Join(Tail(pieces), sep)

\* A table row of n cells of the given tokens, with its leading '|' and with
\* or without the trailing one
Row(n, cell, trail) ==
    <<TableCellSeparator>> \o Join([k \in 1..n |-> cell], TableCellSeparator)
        \o (IF trail THEN <<TableCellSeparator>> ELSE <<>>)

AlignmentCells ==
    {<<Punctuation("-")>>, <<Punctuation(":"), Punctuation("-")>>,
     <<Punctuation("-"), Punctuation(":")>>,
     <<Punctuation(":"), Punctuation("-"), Punctuation(":")>>}

HeaderRows == {Row(n, <<Whitespace, Text("h"), Whitespace>>, TRUE) : n \in 1..MaxCells}
AlignmentRows == {Row(n, c, TRUE) : n \in 1..MaxCells, c \in AlignmentCells}
BodyRows == {Row(n, <<Text("x")>>, trail) : n \in 1..MaxCells, trail \in BOOLEAN}

TableInputs ==
    {Join(<<h>> \o rest, Newline) :
        h \in HeaderRows,
        rest \in {<<>>} \cup {<<a>> \o body : a \in AlignmentRows,
                                              body \in SeqsUpTo(BodyRows, MaxBodyRows)}}

BlockInputs ==
    HeadingInputs \cup TableInputs \cup Scenarios \cup CodeInputs
        \cup {<<ThematicBreak>>, <<Newline>>}

(***************************************************************************)
(* parse_block as a state machine: one call on one block.                  *)
(***************************************************************************)
ApplyBlock(line) ==
    /\ bpc = "ready"
    /\ block = line
    /\ result' = ParseBlock(line)
    /\ bpc' = "done"
    /\ UNCHANGED <<block, inlineVars, docVars, lexVars, poolVars>>

\* line 46
ParseHeadingBlock ==
    /\ block # <<>> /\ block[1] = Punctuation("#")
    /\ ApplyBlock(block)

\* line 60
ParseTableBlock ==
    /\ block # <<>> /\ block[1].k = "TableCellSeparator"
    /\ ApplyBlock(block)

\* lines 59, 64
ParseBreakOrBlank ==
    /\ block # <<>> /\ block[1].k \in {"ThematicBreak", "Newline"}
    /\ ApplyBlock(block)

\* lines 65-67
ParseParagraphBlock ==
    /\ IsParagraphStart(block)
    /\ ApplyBlock(block)

InitBlock ==
    /\ block \in BlockInputs
    /\ result = NoBlock
    /\ bpc = "ready"
    /\ tokens = <<>>
    /\ pos = 0
    /\ buffer = ""
    /\ elements = <<>>
    /\ delimiter_stack = <<>>
    /\ i = 0
    /\ j = -1
    /\ closer = NoDelimiter
    /\ pc = "idle"
    /\ tokenized_lines = <<>>
    /\ line_index = 0
    /\ blocks = <<>>
    /\ is_inside_code_block = FALSE
    /\ block_index = 0
    /\ parsed_elements = <<>>
    /\ dpc = "idle"
    /\ source_line = <<>>
    /\ lexed = <<>>
    /\ lpc = "idle"
    /\ PoolIdle

NextBlock ==
    \/ ParseHeadingBlock
    \/ ParseTableBlock
    \/ ParseBreakOrBlank
    \/ ParseParagraphBlock

SpecBlock == InitBlock /\ [][NextBlock]_vars

Init ==
    /\ tokens \in InlineInputs
    /\ pos = 0
    /\ buffer = ""
    /\ elements = <<>>
    /\ delimiter_stack = <<>>
    /\ i = 0
    /\ j = -1
    /\ closer = NoDelimiter
    /\ pc = "scan"
    /\ block = <<>>
    /\ result = NoBlock
    /\ bpc = "idle"
    /\ tokenized_lines = <<>>
    /\ line_index = 0
    /\ blocks = <<>>
    /\ is_inside_code_block = FALSE
    /\ block_index = 0
    /\ parsed_elements = <<>>
    /\ dpc = "idle"
    /\ source_line = <<>>
    /\ lexed = <<>>
    /\ lpc = "idle"
    /\ PoolIdle

Next ==
    \/ ScanEmphasisRun
    \/ ScanOpenBracket
    \/ ScanCodeTick
    \/ ScanImage
    \/ ScanText
    \/ ScanFlushOnly
    \/ EndOfTokens
    \/ NextCloser
    \/ TakeCloser
    \/ SkipOpener
    \/ Pair
    \/ PairPanic
    \/ EndBackwardScan
    \/ Finalize

Spec == Init /\ [][Next]_vars

(***************************************************************************)
(* The files generate_static_site is run on, as the tokens of their lines. *)
(***************************************************************************)
MaxCodeLines == 3
MaxFencedLines == 2
MaxListLines == 3
MaxQuoteLines == 2
MaxMixedLines == 2

NonEmptySeqsUpTo(S, n) == SeqsUpTo(S, n) \ {<<>>}

Item(s) == <<Punctuation("-"), Whitespace, Text(s)>>
Numbered(s) == <<OrderedListMarker("1."), Whitespace, Text(s)>>

OpeningFences == {<<CodeFence>>, <<CodeFence, Text("rust")>>,
                  <<CodeFence, Whitespace, Text("rust")>>}
ClosingFences == {<<CodeFence>>, <<CodeFence, Text("x")>>}
CodeLines == {<<Text("a")>>, <<>>, <<Tab, Text("b")>>, <<RawHtmlTag("<b>")>>}

\* A fenced code block, closed or left open at the end of the file
CodeDocs ==
    {<<open>> \o inner \o close :
        open \in OpeningFences,
        inner \in SeqsUpTo(CodeLines, MaxCodeLines),
        close \in {<<c>> : c \in ClosingFences} \cup {<<>>}}

\* Lines of every kind between two fences, and after them
FencedAnyLines ==
    {<<>>, <<Text("a")>>, <<Punctuation("#"), Whitespace, Text("a")>>, Item("a"),
     Numbered("a"), <<ThematicBreak>>, <<BlockQuoteMarker, Whitespace, Text("a")>>,
     <<TableCellSeparator, Text("h"), TableCellSeparator>>, <<Whitespace, Text("a")>>,
     <<Text("="), Text("=")>>}

FenceDocs ==
    {<<open>> \o inner \o close \o after :
        open \in {<<CodeFence>>, <<CodeFence, Text("rust")>>},
        inner \in SeqsUpTo(FencedAnyLines, MaxFencedLines),
        close \in {<<>>, << <<CodeFence>> >>},
        after \in {<<>>, << <<Text("b")>> >>, << <<Punctuation("#"), Whitespace, Text("b")>> >>}}

ListLines == {Item("one"), <<Tab>> \o Item("two"), <<Tab, Tab>> \o Item("six"),
              <<Tab>> \o Numbered("ten"), Numbered("two")}

ListDocs ==
    {<<first>> \o rest :
        first \in {Item("one"), Numbered("one")},
        rest \in SeqsUpTo(ListLines \cup {Item("three")}, MaxListLines - 1)}

\* What may stand before a line of three dashes, or a lone dash
BeforeBreak ==
    {<<>>, << <<>> >>, << <<Text("a")>> >>, << <<Text("a")>>, <<>> >>,
     << <<Punctuation("#"), Whitespace, Text("a")>> >>, << Item("a") >>,
     << Numbered("a") >>,
     << <<TableCellSeparator, Text("h"), TableCellSeparator>> >>,
     << <<BlockQuoteMarker, Whitespace, Text("a")>> >>,
     << <<CodeFence>>, <<Text("a")>>, <<CodeFence>> >>,
     << <<Tab, Text("a")>> >>, << <<RawHtmlTag("<b>")>> >>,
     << <<Punctuation("("), Text("a")>> >>}

BreakDocs ==
    {before \o <<dashes>> \o after :
        before \in BeforeBreak,
        dashes \in {<<ThematicBreak>>, <<Punctuation("-")>>},
        after \in {<<>>, << <<Text("b")>> >>}}

QuoteLines ==
    {<<BlockQuoteMarker>>, <<BlockQuoteMarker, Whitespace>>,
     <<BlockQuoteMarker, Whitespace, Text("a")>>, <<BlockQuoteMarker, Text("b")>>,
     <<BlockQuoteMarker, Whitespace, BlockQuoteMarker, Whitespace, Text("c")>>,
     <<BlockQuoteMarker, Whitespace, Punctuation("#"), Whitespace, Text("h")>>,
     <<BlockQuoteMarker, Whitespace>> \o Item("d")}

QuoteDocs == NonEmptySeqsUpTo(QuoteLines, MaxQuoteLines)

MixedLines ==
    {<<>>, <<Text("a")>>, <<Text("="), Text("=")>>, <<Text("="), Whitespace, Text("a")>>,
     <<Punctuation("#"), Whitespace, Text("a")>>,
     <<TableCellSeparator, Text("h"), TableCellSeparator>>,
     <<Whitespace, Text("a")>>, <<Whitespace>>, <<Whitespace, Punctuation("-")>>,
     <<CodeTick, Text("c"), CodeTick>>, Numbered("a"), Item("a"),
     <<RawHtmlTag("<b>")>>, <<Tab, Text("a")>>, <<Tab, RawHtmlTag("</b>")>>,
     <<Punctuation("("), Text("a")>>, <<Punctuation("-"), Text("a")>>}

MixedDocs == NonEmptySeqsUpTo(MixedLines, MaxMixedLines)

DocInputs == CodeDocs \cup FenceDocs \cup ListDocs \cup BreakDocs \cup QuoteDocs \cup MixedDocs

(***************************************************************************)
(* generate_static_site from the tokenized lines on: group_lines_to_blocks *)
(* line by line, then parse_blocks block by block.                         *)
(***************************************************************************)
CurrentLine == tokenized_lines[line_index + 1]
Grouping == [blocks |-> blocks, inside |-> is_inside_code_block]

\* The loop of lines 1038-1167 stands before a line that the arm named handles
AtLine(arm) ==
    /\ dpc = "group"
    /\ line_index < Len(tokenized_lines)
    /\ LineArm(is_inside_code_block, CurrentLine) = arm

\* One iteration of the loop of lines 1038-1167, a being what the arm gave
GroupStep(a) ==
    /\ blocks' = AfterArm(a).blocks
    /\ is_inside_code_block' = AfterArm(a).inside
    /\ line_index' = line_index + 1
    /\ dpc' = IF line_index + 1 = Len(tokenized_lines) THEN "parse" ELSE "group"
    /\ UNCHANGED <<tokenized_lines, block_index, parsed_elements, inlineVars, blockVars, lexVars, poolVars>>

\* lines 1041-1046
LineInsideFence ==
    /\ AtLine("InsideFence")
    /\ GroupStep(GroupInsideFence(Grouping, CurrentLine))
\* lines 1047-1052
LineClosingFence ==
    /\ AtLine("ClosingFence")
    /\ GroupStep(GroupClosingFence(Grouping, CurrentLine))
\* lines 1056-1058
LineAtxHeading ==
    /\ AtLine("AtxHeading")
    /\ GroupStep(GroupAtxHeading(Grouping, CurrentLine))
\* lines 1059-1061
LineDashed ==
    /\ AtLine("Dashed")
    /\ GroupStep(GroupDashedLines(Grouping, CurrentLine))
\* lines 1062-1064
LineTabbed ==
    /\ AtLine("Tabbed")
    /\ GroupStep(GroupTabbedLines(Grouping, CurrentLine))
\* lines 1065-1067
LineOrdered ==
    /\ AtLine("Ordered")
    /\ GroupStep(GroupOrderedList(Grouping, CurrentLine))
\* lines 1068-1088
LineThematicBreak ==
    /\ AtLine("ThematicBreak")
    /\ GroupStep(GroupThematicBreak(Grouping, CurrentLine))
\* lines 1089-1099
LineBlockQuote ==
    /\ AtLine("BlockQuote")
    /\ GroupStep(GroupBlockQuote(Grouping, CurrentLine))
\* lines 1105-1107
LineCodeTick ==
    /\ AtLine("CodeTick")
    /\ GroupStep(GroupCodeTick(Grouping, CurrentLine))
\* lines 1108-1118
LineOpeningFence ==
    /\ AtLine("OpeningFence")
    /\ GroupStep(GroupOpeningFence(Grouping, CurrentLine))
\* lines 1119-1141
LineEquals ==
    /\ AtLine("Equals")
    /\ GroupStep(GroupEquals(Grouping, CurrentLine))
\* lines 1142-1144
LineText ==
    /\ AtLine("Text")
    /\ GroupStep(GroupTextLines(Grouping, CurrentLine))
\* lines 1145-1147
LineTableRow ==
    /\ AtLine("TableRow")
    /\ GroupStep(GroupTableRows(Grouping, CurrentLine))
\* lines 1148-1155
LineLeadingWhitespace ==
    /\ AtLine("LeadingWhitespace")
    /\ GroupStep(GroupLinesWithLeadingWhitespace(Grouping, CurrentLine))
\* lines 1156-1159
LineOther ==
    /\ AtLine("Other")
    /\ GroupStep(GroupOther(Grouping, CurrentLine))

\* parse_blocks, lines 26-30: one iteration of the loop over the blocks
ParseNextBlock ==
    /\ dpc = "parse"
    /\ block_index < Len(blocks)
    /\ parsed_elements' = PushElement(parsed_elements, ParseBlock(blocks[block_index + 1]))
    /\ block_index' = block_index + 1
    /\ UNCHANGED <<tokenized_lines, line_index, blocks, is_inside_code_block, dpc,
                   inlineVars, blockVars, lexVars, poolVars>>

\* parse_blocks, line 32
ReturnElements ==
    /\ dpc = "parse"
    /\ block_index = Len(blocks)
    /\ dpc' = "done"
    /\ UNCHANGED <<tokenized_lines, line_index, blocks, is_inside_code_block, block_index,
                   parsed_elements, inlineVars, blockVars, lexVars, poolVars>>

InitDoc ==
    /\ tokenized_lines \in DocInputs
    /\ line_index = 0
    /\ blocks = <<>>
    /\ is_inside_code_block = FALSE
    /\ block_index = 0
    /\ parsed_elements = <<>>
    /\ dpc = "group"
    /\ block = <<>>
    /\ result = NoBlock
    /\ bpc = "idle"
    /\ tokens = <<>>
    /\ pos = 0
    /\ buffer = ""
    /\ elements = <<>>
    /\ delimiter_stack = <<>>
    /\ i = 0
    /\ j = -1
    /\ closer = NoDelimiter
    /\ pc = "idle"
    /\ source_line = <<>>
    /\ lexed = <<>>
    /\ lpc = "idle"
    /\ PoolIdle

NextDoc ==
    \/ LineInsideFence
    \/ LineClosingFence
    \/ LineAtxHeading
    \/ LineDashed
    \/ LineTabbed
    \/ LineOrdered
    \/ LineThematicBreak
    \/ LineBlockQuote
    \/ LineCodeTick
    \/ LineOpeningFence
    \/ LineEquals
    \/ LineText
    \/ LineTableRow
    \/ LineLeadingWhitespace
    \/ LineOther
    \/ ParseNextBlock
    \/ ReturnElements

SpecDoc == InitDoc /\ [][NextDoc]_vars

(***************************************************************************)
(* tokenize, after the rules of the lexer's description: lexer.rs is not   *)
(* among the sources.  A line is the sequence of its characters.           *)
(***************************************************************************)
MaxLineLen == 4

TabChar == "\t"
LineAlphabet == {"-", " ", "a", "b", Backtick, "<", ">", "\\", TabChar}
IsWordChar(c) == c \in {"a", "b"}

RECURSIVE Concat(_)
\* The string of the characters
Concat(chars) == IF chars = <<>> THEN "" ELSE Head(chars) \o Concat(Tail(chars))

RECURSIVE RunEnd(_, _, _)
\* The last position of the run of characters of the set that starts at p
RunEnd(line, p, set) ==
    IF p < Len(line) /\ line[p + 1] \in set THEN RunEnd(line, p + 1, set) ELSE p

\* rule 4: the line is three dashes and nothing but spaces after them
IsBreakLine(line) ==
    /\ Len(line) >= 3
    /\ \A k \in 1..3 : line[k] = "-"
    /\ \A k \in 4..Len(line) : line[k] = " "

\* rule 7: the position of the '>' that closes the tag opened at p, 0 if none
TagEnd(line, p) ==
    IF /\ p < Len(line)
       /\ (IsWordChar(line[p + 1]) \/ line[p + 1] = "/")
       /\ \E q \in (p + 1)..Len(line) : line[q] = ">"
    THEN CHOOSE q \in (p + 1)..Len(line) :
            line[q] = ">" /\ \A r \in (p + 1)..(q - 1) : line[r] # ">"
    ELSE 0

RECURSIVE LexFrom(_, _)
\* rules 1-3 and 7-11, from position p on
LexFrom(line, p) ==
    IF p > Len(line) THEN <<>>
    ELSE CASE line[p] = TabChar -> <<Tab>> \o LexFrom(line, p + 1)
           [] line[p] = Backtick ->
                 IF p = 1 /\ RunEnd(line, 1, {Backtick}) >= 3
                 THEN <<CodeFence>> \o LexFrom(line, RunEnd(line, 1, {Backtick}) + 1)
                 ELSE <<CodeTick>> \o LexFrom(line, p + 1)
           [] line[p] = ">" ->
                 <<IF p = 1 THEN BlockQuoteMarker ELSE Punctuation(">")>>
                     \o LexFrom(line, p + 1)
           [] line[p] = "<" ->
                 IF TagEnd(line, p) = 0
                 THEN <<Punctuation("<")>> \o LexFrom(line, p + 1)
                 ELSE <<RawHtmlTag(Concat(SubSeq(line, p, TagEnd(line, p))))>>
                         \o LexFrom(line, TagEnd(line, p) + 1)
           [] line[p] = "\\" ->
                 IF p = Len(line) THEN <<Punctuation("\\")>>
                 ELSE <<Escape(line[p + 1])>> \o LexFrom(line, p + 2)
           [] line[p] = " " -> <<Whitespace>> \o LexFrom(line, p + 1)
           [] IsWordChar(line[p]) ->
                 <<Text(Concat(SubSeq(line, p, RunEnd(line, p, {"a", "b"}))))>>
                     \o LexFrom(line, RunEnd(line, p, {"a", "b"}) + 1)
           [] OTHER -> <<Punctuation(line[p])>> \o LexFrom(line, p + 1)

\* tokenize
Tokenize(line) == IF IsBreakLine(line) THEN <<ThematicBreak>> ELSE LexFrom(line, 1)

\* The text a token stands for
Rendering(token) ==
    CASE token.k \in {"Text", "Punctuation", "RawHtmlTag", "OrderedListMarker"} -> token.s
      [] token.k = "Whitespace" -> " "
      [] token.k = "Tab" -> TabChar
      [] token.k = "Escape" -> "\\" \o token.s
      [] token.k = "CodeTick" -> Backtick
      [] token.k = "CodeFence" -> Repeat(Backtick, 3)
      [] token.k = "BlockQuoteMarker" -> ">"
      [] token.k = "ThematicBreak" -> "---"
      [] OTHER -> ""

RECURSIVE RenderAll(_)
RenderAll(toks) == IF toks = <<>> THEN "" ELSE Rendering(Head(toks)) \o RenderAll(Tail(toks))

LineInputs == SeqsUpTo(LineAlphabet, MaxLineLen)

\* main.rs line 199: tokenize(line)
TokenizeLine ==
    /\ lpc = "ready"
    /\ lexed' = Tokenize(source_line)
    /\ lpc' = "done"
    /\ UNCHANGED <<source_line, inlineVars, blockVars, docVars, poolVars>>

InitLex ==
    /\ source_line \in LineInputs
    /\ lexed = <<>>
    /\ lpc = "ready"
    /\ tokenized_lines = <<>>
    /\ line_index = 0
    /\ blocks = <<>>
    /\ is_inside_code_block = FALSE
    /\ block_index = 0
    /\ parsed_elements = <<>>
    /\ dpc = "idle"
    /\ block = <<>>
    /\ result = NoBlock
    /\ bpc = "idle"
    /\ tokens = <<>>
    /\ pos = 0
    /\ buffer = ""
    /\ elements = <<>>
    /\ delimiter_stack = <<>>
    /\ i = 0
    /\ j = -1
    /\ closer = NoDelimiter
    /\ pc = "idle"
    /\ PoolIdle

NextLex == TokenizeLine

SpecLex == InitLex /\ [][NextLex]_vars

(***************************************************************************)
(* thread_pool.rs: the pool of workers that main.rs hands one job per file *)
(* to.  Jobs are numbered in the order in which execute accepts them.      *)
(***************************************************************************)

MaxWorkers == 2       \* largest size of the pool
MaxJobs == 3          \* most jobs handed to execute

\* Result<Job, RecvError> of line 76
RecvOk(job) == [ok |-> TRUE, job |-> job]
RecvErr == [ok |-> FALSE, job |-> 0]

\* line 72: a spawned worker, about to lock the receiver for the first time
Worker == [at |-> "lock", job_result |-> RecvErr]

\* a worker's thread has ended: by the break of line 84 or by a panic
HasEnded(worker) == worker.at \in {"exited", "panicked"}

\* line 41: thread.join() returns once the worker's thread has ended
JoinReturnsAtOnce(worker) == TRUE
JoinReturns(worker) == HasEnded(worker)

\* The receiver lives in an Arc shared by the workers' closures (lines 23, 27):
\* it is dropped with the last closure
ReceiverAlive == \E w \in DOMAIN workers : ~HasEnded(workers[w])

\* line 38: drop(self.sender)
SenderKept == sender
SenderDropped == FALSE

\* lines 74-77: the guard is a local of the block and is dropped at its end,
\* before the match of line 79
HoldersKept(w) == mutex_holders
HoldersAfterBlock(w) == mutex_holders \ {w}

\* lines 47-59, called by main.rs 103-117: send succeeds while the receiver
\* lives
Execute ==
    /\ mpc = "execute"
    /\ sent < MaxJobs
    /\ ReceiverAlive
    /\ queue' = Append(queue, sent + 1)
    /\ sent' = sent + 1
    /\ UNCHANGED <<sender, mutex_holders, poisoned, workers, mpc, joined, started, finished,
                   inlineVars, blockVars, docVars, lexVars>>

\* lines 53-58 and main.rs 113-116: send fails when the receiver is gone, and
\* run returns the error, dropping the pool
ExecuteFails ==
    /\ mpc = "execute"
    /\ sent < MaxJobs
    /\ ~ReceiverAlive
    /\ mpc' = "failed"
    /\ sender' = FALSE
    /\ UNCHANGED <<queue, mutex_holders, poisoned, workers, joined, sent, started, finished,
                   inlineVars, blockVars, docVars, lexVars>>

\* line 38 (main.rs 190)
JoinAll ==
    /\ mpc = "execute"
    /\ sender' = SenderDropped
    /\ mpc' = "join"
    /\ UNCHANGED <<queue, mutex_holders, poisoned, workers, joined, sent, started, finished,
                   inlineVars, blockVars, docVars, lexVars>>

\* lines 40-44: the workers are joined in order; join_all returns after the
\* last one
JoinWorker ==
    /\ mpc = "join"
    /\ joined < Len(workers)
    /\ JoinReturns(workers[joined + 1])
    /\ joined' = joined + 1
    /\ mpc' = IF joined + 1 = Len(workers) THEN "done" ELSE "join"
    /\ UNCHANGED <<sender, queue, mutex_holders, poisoned, workers, sent, started, finished,
                   inlineVars, blockVars, docVars, lexVars>>

\* line 75: receiver.lock().expect(..): blocks while another worker holds the
\* mutex, panics when the mutex is poisoned
Lock(w) ==
    /\ workers[w].at = "lock"
    /\ mutex_holders = {}
    /\ IF poisoned
         THEN /\ workers' = [workers EXCEPT ![w].at = "panicked"]
              /\ UNCHANGED mutex_holders
         ELSE /\ workers' = [workers EXCEPT ![w].at = "recv"]
              /\ mutex_holders' = {w}
    /\ UNCHANGED <<sender, queue, poisoned, mpc, joined, sent, started, finished,
                   inlineVars, blockVars, docVars, lexVars>>

\* line 76: receiver.recv() blocks while the channel is empty and a sender
\* lives; it returns Err only when the channel is empty and closed
Recv(w) ==
    /\ workers[w].at = "recv"
    /\ \/ /\ queue # <<>>
          /\ workers' = [workers EXCEPT ![w] = [at |-> "unlock", job_result |-> RecvOk(Head(queue))]]
          /\ queue' = Tail(queue)
       \/ /\ queue = <<>>
          /\ ~sender
          /\ workers' = [workers EXCEPT ![w] = [at |-> "unlock", job_result |-> RecvErr]]
          /\ UNCHANGED queue
    /\ UNCHANGED <<sender, mutex_holders, poisoned, mpc, joined, sent, started, finished,
                   inlineVars, blockVars, docVars, lexVars>>

\* line 77: the end of the block drops the guard
Unlock(w) ==
    /\ workers[w].at = "unlock"
    /\ mutex_holders' = HoldersAfterBlock(w)
    /\ workers' = [workers EXCEPT ![w].at = "match"]
    /\ UNCHANGED <<sender, queue, poisoned, mpc, joined, sent, started, finished,
                   inlineVars, blockVars, docVars, lexVars>>

\* lines 80-81: Ok(job) => job() is entered
RunJob(w) ==
    /\ workers[w].at = "match"
    /\ workers[w].job_result.ok
    /\ workers' = [workers EXCEPT ![w].at = "job"]
    /\ started' = [started EXCEPT ![workers[w].job_result.job] = @ + 1]
    /\ UNCHANGED <<sender, queue, mutex_holders, poisoned, mpc, joined, sent, finished,
                   inlineVars, blockVars, docVars, lexVars>>

\* lines 83-85: Err(_) => break, and the thread ends
Break(w) ==
    /\ workers[w].at = "match"
    /\ ~workers[w].job_result.ok
    /\ workers' = [workers EXCEPT ![w].at = "exited"]
    /\ UNCHANGED <<sender, queue, mutex_holders, poisoned, mpc, joined, sent, started, finished,
                   inlineVars, blockVars, docVars, lexVars>>

\* line 81: job() returns and the loop starts over
JobReturns(w) ==
    /\ workers[w].at = "job"
    /\ finished' = finished \cup {workers[w].job_result.job}
    /\ workers' = [workers EXCEPT ![w] = Worker]
    /\ UNCHANGED <<sender, queue, mutex_holders, poisoned, mpc, joined, sent, started,
                   inlineVars, blockVars, docVars, lexVars>>

\* line 81: job() panics; the thread unwinds, and a guard it still held
\* would poison the mutex
JobPanics(w) ==
    /\ workers[w].at = "job"
    /\ workers' = [workers EXCEPT ![w].at = "panicked"]
    /\ poisoned' = (poisoned \/ w \in mutex_holders)
    /\ mutex_holders' = mutex_holders \ {w}
    /\ UNCHANGED <<sender, queue, mpc, joined, sent, started, finished,
                   inlineVars, blockVars, docVars, lexVars>>

\* lines 73-87: one step of worker w
WorkerStep(w) ==
    \/ Lock(w)
    \/ Recv(w)
    \/ Unlock(w)
    \/ RunJob(w)
    \/ Break(w)
    \/ JobReturns(w)
    \/ JobPanics(w)

\* lines 15-35: the state after ThreadPool::build(size)
InitPool ==
    /\ \E size \in 1..MaxWorkers : workers = [w \in 1..size |-> Worker]
    /\ sender = TRUE
    /\ queue = <<>>
    /\ mutex_holders = {}
    /\ poisoned = FALSE
    /\ mpc = "execute"
    /\ joined = 0
    /\ sent = 0
    /\ started = [job \in 1..MaxJobs |-> 0]
    /\ finished = {}
    /\ source_line = <<>>
    /\ lexed = <<>>
    /\ lpc = "idle"
    /\ tokenized_lines = <<>>
    /\ line_index = 0
    /\ blocks = <<>>
    /\ is_inside_code_block = FALSE
    /\ block_index = 0
    /\ parsed_elements = <<>>
    /\ dpc = "idle"
    /\ block = <<>>
    /\ result = NoBlock
    /\ bpc = "idle"
    /\ tokens = <<>>
    /\ pos = 0
    /\ buffer = ""
    /\ elements = <<>>
    /\ delimiter_stack = <<>>
    /\ i = 0
    /\ j = -1
    /\ closer = NoDelimiter
    /\ pc = "idle"

NextPool ==
    \/ Execute
    \/ ExecuteFails
    \/ JoinAll
    \/ JoinWorker
    \/ \E w \in DOMAIN workers : Lock(w)
    \/ \E w \in DOMAIN workers : Recv(w)
    \/ \E w \in DOMAIN workers : Unlock(w)
    \/ \E w \in DOMAIN workers : RunJob(w)
    \/ \E w \in DOMAIN workers : Break(w)
    \/ \E w \in DOMAIN workers : JobReturns(w)
    \/ \E w \in DOMAIN workers : JobPanics(w)

SpecPool == InitPool /\ [][NextPool]_vars

\* The scheduler lets every thread that can step do so in the end, and every
\* job ends: weak fairness of each worker's steps and of the joins of main
Fairness ==
    /\ \A w \in 1..MaxWorkers : WF_vars(w \in DOMAIN workers /\ WorkerStep(w))
    /\ WF_vars(JoinWorker)

SpecPoolFair == SpecPool /\ Fairness


(***************************************************************************)
(* Properties of the inline parser, checked under Spec.                    *)
(***************************************************************************)
Returned == pc \in {"done", "panic"}

\* C1: emphasis resolution completes without a panic, for every token
\* sequence given to parse_inline and every label parsed by parse_link_type:
\* no slice, splice or index of resolve_emphasis leaves the element list.
ResolveNeverPanics == pc # "panic"

RECURSIVE HasPlaceholder(_)
\* A Placeholder in the elements or nested in the content of one of them
HasPlaceholder(els) ==
    \E k \in 1..Len(els) :
        \/ els[k].t = "Placeholder"
        \/ els[k].t \in {"Bold", "Italic"} /\ HasPlaceholder(els[k].content)
        \/ els[k].t = "Link" /\ HasPlaceholder(els[k].text)

\* C3: after parse_inline returns, no Placeholder exists in the returned
\* elements, neither at the top level nor nested in a Bold, Italic or Link.
NoPlaceholderSurvives == pc = "done" => ~HasPlaceholder(elements)

Placeholders(els) == Cardinality({k \in 1..Len(els) : els[k].t = "Placeholder"})
ActiveDelimiters(stack) == Cardinality({k \in 1..Len(stack) : stack[k].active})

\* C4: during emphasis resolution, after every pairing step, the number of
\* Placeholder elements of the element list equals the number of delimiters
\* that are still active.
PlaceholdersMatchActive ==
    pc \in {"outer", "inner"} => Placeholders(elements) = ActiveDelimiters(delimiter_stack)

\* "**a *b* c**"
BoldAroundItalic ==
    <<EmphasisRun("*", 2), Text("a"), Whitespace, EmphasisRun("*", 1), Text("b"),
      EmphasisRun("*", 1), Whitespace, Text("c"), EmphasisRun("*", 2)>>

\* C6: an italic pair inside a bold pair, as in "**a *b* c**", resolves to one
\* Bold whose content is the text before, the Italic of the inner text and the
\* text after: each closer is paired with its own opener only.
ItalicInsideBold ==
    (Returned /\ tokens = BoldAroundItalic)
        => /\ pc = "done"
           /\ elements = <<Bold(<<TextEl("a "), Italic(<<TextEl("b")>>), TextEl(" c")>>)>>

\* "***a***"
TripleRuns == <<EmphasisRun("*", 3), Text("a"), EmphasisRun("*", 3)>>

\* C7: an opening and a closing run of length 3 around some content, as in
\* "***a***", resolve to one Bold holding one Italic holding the content.
TripleRunIsBoldItalic ==
    (Returned /\ tokens = TripleRuns)
        => /\ pc = "done"
           /\ elements = <<Bold(<<Italic(<<TextEl("a")>>)>>)>>

RECURSIVE SpanText(_, _, _)
\* The text of the tokens from..to of a code span
SpanText(toks, from, to) ==
    IF from > to THEN "" ELSE CodeText(toks[from]) \o SpanText(toks, from + 1, to)

Ticks(toks) == {k \in 1..Len(toks) : toks[k] = CodeTick}
FirstTickAfter(toks, k) == CHOOSE t \in Ticks(toks) : t > k /\ \A u \in Ticks(toks) : u > k => t <= u

\* C8: a CodeTick with no later CodeTick gives a Text of one backtick and the
\* text of the tokens after it, with no closing backtick added; a CodeTick
\* with a later one gives the Code of the text between the two.
CodeSpanClosedOrLiteral ==
    (pc = "done" /\ tokens # <<>> /\ tokens[1] = CodeTick)
        => IF Ticks(tokens) = {1}
           THEN elements = <<TextEl(Backtick \o SpanText(tokens, 2, Len(tokens)))>>
           ELSE elements[1] = Code(SpanText(tokens, 2, FirstTickAfter(tokens, 1) - 1))

RECURSIVE SourceText(_)
\* The source text of a sequence of text, whitespace and bracket tokens
SourceText(toks) ==
    IF toks = <<>> THEN ""
    ELSE (CASE Head(toks).k = "OpenBracket" -> "["
            [] Head(toks).k = "CloseBracket" -> "]"
            [] Head(toks).k = "Whitespace" -> " "
            [] OTHER -> Head(toks).s) \o SourceText(Tail(toks))

\* "[a]" followed by text, whitespace and brackets, and by no '('
LabelWithoutParenthesis(toks) ==
    /\ Len(toks) > 3
    /\ SubSeq(toks, 1, 3) = <<OpenBracket, Text("a"), CloseBracket>>
    /\ \A k \in 4..Len(toks) :
          toks[k].k \in {"Text", "Whitespace", "OpenBracket", "CloseBracket"}

\* C9: a label closed by ']' and not followed by '(' is returned as
\* Text("[label]") and nothing after the ']' is consumed: the text of every
\* token that follows is in the output, as in "[a] a" and "[a][a]".
NoParenthesisConsumesNothing ==
    (pc = "done" /\ LabelWithoutParenthesis(tokens))
        => /\ elements[1] = TextEl("[a]")
           /\ FlattenInline(elements) = SourceText(tokens)

\* A link or an image whose title position opens a '"' that is not closed
\* before the ')' that ends the tokens
UnclosedTitleQuote(toks) ==
    \E c, q \in 1..Len(toks) :
        /\ c < q /\ q < Len(toks)
        /\ \/ toks[1] = OpenBracket
           \/ c > 2 /\ toks[1] = Punctuation("!") /\ toks[2] = OpenBracket
        /\ \A k \in 2..(c - 1) : toks[k].k \in {"Text", "Whitespace"} \/ (k = 2 /\ toks[1].k = "Punctuation")
        /\ toks[c] = CloseBracket
        /\ toks[c + 1] = OpenParenthesis
        /\ \A k \in (c + 2)..(q - 2) : toks[k].k = "Text"
        /\ q - 1 > c + 1 /\ toks[q - 1] = Whitespace
        /\ toks[q] = Punctuation("\"")
        /\ \A k \in (q + 1)..(Len(toks) - 1) : toks[k].k \in {"Text", "Whitespace"}
        /\ toks[Len(toks)] = CloseParenthesis

\* C10: an opening '"' in the title position of a link or image with no
\* closing '"' before the ')' gives a Text element, never a Link or an Image,
\* also when no title text follows the opening quote.
UnclosedQuoteIsText ==
    (pc = "done" /\ UnclosedTitleQuote(tokens))
        => Len(elements) = 1 /\ elements[1].t = "Text"

(***************************************************************************)
(* Properties of the block parser, checked under SpecBlock.                *)
(***************************************************************************)
\* C2: every Header produced by parse_block has a level of 1 to 6, and a
\* block that starts with seven or more '#' is returned as a Paragraph.
HeaderLevelAtMostSix ==
    bpc = "done" =>
        /\ result.t = "Header" => result.level \in 1..6
        /\ (block # <<>> /\ CountHashes(block, 0) >= 7) => result.t = "Paragraph"

\* C5: in every Table produced by parse_table, each body row has at most as
\* many cells as the header row.
BodyRowsWithinHeader ==
    (bpc = "done" /\ result.t = "Table")
        => \A r \in 1..Len(result.body) : Len(result.body[r]) <= Len(result.headers)

NewlinePositions(toks) == {k \in 1..Len(toks) : toks[k] = Newline}
RowCount(toks) == Cardinality(NewlinePositions(toks)) + 1

\* The position before the first token of row r and that of its last token
RowBefore(toks, r) ==
    IF r = 1 THEN 0
    ELSE CHOOSE p \in NewlinePositions(toks) :
            Cardinality({q \in NewlinePositions(toks) : q < p}) = r - 2
RowLast(toks, r) ==
    IF r = RowCount(toks) THEN Len(toks) ELSE RowBefore(toks, r + 1) - 1

RECURSIVE CellTokensText(_, _, _)
\* The text of the tokens from..to that are no cell separators
CellTokensText(toks, from, to) ==
    IF from > to THEN ""
    ELSE (IF toks[from] = TableCellSeparator THEN "" ELSE BufferText(toks[from]))
            \o CellTokensText(toks, from + 1, to)

RowText(toks, r) == CellTokensText(toks, RowBefore(toks, r) + 1, RowLast(toks, r))

RECURSIVE CellsText(_)
\* The text of the cells of a parsed row
CellsText(cells) ==
    IF cells = <<>> THEN ""
    ELSE FlattenInline(Head(cells).content) \o CellsText(Tail(cells))

\* C11: a block that starts with a cell separator and has fewer than three
\* rows is the Paragraph of the inline parse of the whole block; with three
\* or more rows it is a Table whose header cells hold row 1 and whose body
\* rows hold rows 3 onward, row 2 giving no cell.
TableNeedsThreeRows ==
    (bpc = "done" /\ block # <<>> /\ block[1] = TableCellSeparator)
        => IF RowCount(block) < 3
           THEN result = Paragraph(ParseInline(block).elements)
           ELSE /\ result.t = "Table"
                /\ CellsText(result.headers) = RowText(block, 1)
                /\ \A k \in 1..Len(result.headers) : result.headers[k].is_header
                /\ Len(result.body) = RowCount(block) - 2
                /\ \A r \in 1..Len(result.body) :
                      /\ CellsText(result.body[r]) = RowText(block, r + 2)
                      /\ \A k \in 1..Len(result.body[r]) : ~result.body[r][k].is_header

\* A table of a header row and two body rows has been parsed
TableOfTwoBodyRows ==
    bpc = "done" /\ result.t = "Table" /\ Len(result.body) = 2 /\ RowCount(block) = 4

(***************************************************************************)
(* Properties of the grouper and the block parsers on whole files, checked *)
(* under SpecDoc.                                                          *)
(***************************************************************************)
\* The file is one fenced code block: a fence line with nothing or only the
\* language after the fence, lines that start with no fence, a bare fence line
IsFencedFile(lines) ==
    /\ Len(lines) >= 2
    /\ lines[1] \in {<<CodeFence>>, <<CodeFence, Text("rust")>>}
    /\ lines[Len(lines)] = <<CodeFence>>
    /\ \A k \in 2..(Len(lines) - 1) : First(lines[k]) # CodeFence

\* C12: the lines of a fenced code block hold one entry for every source line
\* strictly between the two fences, an empty string for each empty line.
FencedLinesKeepEveryLine ==
    (dpc = "done" /\ IsFencedFile(tokenized_lines))
        => /\ Len(parsed_elements) = 1
           /\ parsed_elements[1].t = "CodeBlock"
           /\ Len(parsed_elements[1].lines) = Len(tokenized_lines) - 2
           /\ \A k \in 1..(Len(tokenized_lines) - 2) :
                 tokenized_lines[k + 1] = <<>> => parsed_elements[1].lines[k] = ""

\* The file is one fenced code block, whatever follows the fence on the opening
\* and on the closing line
IsClosedFence(lines) ==
    /\ Len(lines) >= 2
    /\ First(lines[1]) = CodeFence
    /\ First(lines[Len(lines)]) = CodeFence
    /\ \A k \in 2..(Len(lines) - 1) : First(lines[k]) # CodeFence

RECURSIVE InnerTexts(_, _)
\* The texts of the lines k..Len-1 of the file that are not empty
InnerTexts(lines, k) ==
    IF k >= Len(lines) THEN <<>>
    ELSE PushLine(<<>>, FencedLineText(lines[k])) \o InnerTexts(lines, k + 1)

\* C13: no token of the opening or of the closing fence line adds text to the
\* lines of the code block, whatever follows the opening fence on its line;
\* language is Some(s) exactly when the token right after the opening
\* CodeFence is Text(s).
FenceLinesGiveNoText ==
    (dpc = "done" /\ IsClosedFence(tokenized_lines))
        => /\ Len(parsed_elements) = 1
           /\ parsed_elements[1].t = "CodeBlock"
           /\ parsed_elements[1].lines = InnerTexts(tokenized_lines, 2)
           /\ parsed_elements[1].language =
                 (IF Second(tokenized_lines[1]).k = "Text"
                  THEN <<Second(tokenized_lines[1]).s>> ELSE <<>>)

\* The kind of list a line is an item of, if any
ItemKind(line) ==
    IF IsDashList(line) THEN "Unordered"
    ELSE IF IsOrderedList(line) THEN "Ordered" ELSE "None"

\* The file is one list: an item, then items of the same kind and lines that
\* start with a Tab, every item being a marker, a space and one word
IsListFile(lines) ==
    /\ lines # <<>>
    /\ ItemKind(lines[1]) # "None"
    /\ \A k \in 1..Len(lines) :
          /\ First(lines[k]) = Tab \/ ItemKind(lines[k]) = ItemKind(lines[1])
          /\ Len(StripTabs(lines[k])) = 3 /\ StripTabs(lines[k])[3].k = "Text"

RECURSIVE TabRun(_)
\* The lines at the front that start with a Tab
TabRun(lines) ==
    IF lines # <<>> /\ First(Head(lines)) = Tab THEN <<Head(lines)>> \o TabRun(Tail(lines))
    ELSE <<>>

RECURSIVE ExpectedItems(_, _)
\* The list the claim describes for the lines
ExpectedList(lines) ==
    MakeList(ItemKind(lines[1]), ExpectedItems(lines, ItemKind(lines[1])))

\* The items the claim describes for the lines of a list of the kind: an item
\* for a line of the kind, then one item holding the nested list of the Tab
\* lines that follow it, without their Tabs
ExpectedItems(lines, kind) ==
    IF lines = <<>> THEN <<>>
    ELSE IF ItemKind(Head(lines)) # kind THEN ExpectedItems(Tail(lines), kind)
    ELSE <<ListItem(Paragraph(<<TextEl(Head(lines)[3].s)>>))>>
            \o (IF TabRun(Tail(lines)) = <<>> THEN <<>>
                ELSE <<ListItem(ExpectedList(
                          [k \in 1..Len(TabRun(Tail(lines))) |->
                              StripTabs(TabRun(Tail(lines))[k])]))>>)
            \o ExpectedItems(SubSeq(lines, Len(TabRun(Tail(lines))) + 2, Len(lines)), kind)

IsNoParagraph(b) ==
    \/ b = <<>>
    \/ First(b) \in {Punctuation("#"), Newline, TableCellSeparator, BlockQuoteMarker,
                     CodeFence}
    \/ IsDashList(b)
    \/ IsOrderedList(b)

\* C15: a ThematicBreak line rewrites the previous block into a setext
\* heading 2 only when that block is paragraph-style; with no previous block,
\* or after a blank line, a heading, a list, a table, a block quote or a fenced
\* code block, the line is pushed as its own block and the previous block is
\* left as it was.
BreakAfterNoParagraphIsPushed ==
    [][(LineThematicBreak /\ IsNoParagraph(PreviousBlock(blocks)))
           => blocks' = Append(blocks, CurrentLine)]_vars

\* Every line of the file starts with a BlockQuoteMarker
IsQuoteFile(lines) ==
    lines # <<>> /\ \A k \in 1..Len(lines) : First(lines[k]) = BlockQuoteMarker

\* The line is a marker with nothing but one space after it
IsBareMarker(line) == line \in {<<BlockQuoteMarker>>, <<BlockQuoteMarker, Whitespace>>}

RECURSIVE HasEmptyQuote(_)
\* The element is, or holds, a BlockQuote without content
HasEmptyQuote(element) ==
    /\ element.t = "BlockQuote"
    /\ \/ element.content = <<>>
       \/ \E k \in 1..Len(element.content) : HasEmptyQuote(element.content[k])

\* C16: parse_blockquote never returns a BlockQuote with empty content: when
\* the lines without their markers regroup and parse to no block, the result
\* is the Paragraph of the inline parse of the original tokens; otherwise it is
\* the BlockQuote of exactly the parsed blocks.
QuoteIsNeverEmpty ==
    (dpc = "done" /\ IsQuoteFile(tokenized_lines))
        => /\ Len(parsed_elements) = 1
           /\ ~HasEmptyQuote(parsed_elements[1])
           /\ IF \A k \in 1..Len(tokenized_lines) : IsBareMarker(tokenized_lines[k])
              THEN parsed_elements[1]
                      = Paragraph(ParseInline(Join(tokenized_lines, Newline)).elements)
              ELSE parsed_elements[1]
                      = BlockQuote(ParseBlocks(GroupLinesToBlocks(
                                       StripMarkers(tokenized_lines))))

\* ">" alone parsed to a paragraph of the marker's text
BareMarkerIsParagraph ==
    /\ dpc = "done"
    /\ tokenized_lines = << <<BlockQuoteMarker>> >>
    /\ parsed_elements = <<Paragraph(<<TextEl(">")>>)>>

(***************************************************************************)
(* Properties of the lexer, checked under SpecLex.                         *)
(***************************************************************************)
\* C17: for every line, the renderings of the tokens tokenize returns, put
\* together in order, give back the line (also with spaces after '---', with
\* escapes, tabs and an unclosed '<').
LexerPreservesContent ==
    lpc = "done" => RenderAll(lexed) = Concat(source_line)

(***************************************************************************)
(* Properties of the pairings of resolve_emphasis, checked under Spec.     *)
(***************************************************************************)
\* The last n elements of the list
LastElements(els, n) == SubSeq(els, Len(els) - n + 1, Len(els))

\* C18: on each pairing, the content of the new Bold or Italic is exactly the
\* elements strictly between the opener's and the closer's placeholder, in
\* their order, and every element outside that range is left as it was, also
\* when the opener's run is longer than the delimiters the pairing uses.
PairingKeepsElements ==
    [][Pair =>
          /\ \E p \in {delimiter_stack[j + 1].parsed_position + 1,
                       delimiter_stack[j + 1].parsed_position + 2} :
                /\ p <= Len(elements')
                /\ elements'[p].t \in {"Bold", "Italic"}
                /\ elements'[p].content =
                      SubSeq(elements, delimiter_stack[j + 1].parsed_position + 2,
                             delimiter_stack[i + 1].parsed_position)
          /\ SubSeq(elements', 1, delimiter_stack[j + 1].parsed_position)
                = SubSeq(elements, 1, delimiter_stack[j + 1].parsed_position)
          /\ Len(elements') >= Len(elements) - delimiter_stack[i + 1].parsed_position - 1
          /\ LastElements(elements', Len(elements) - delimiter_stack[i + 1].parsed_position - 1)
                = LastElements(elements, Len(elements) - delimiter_stack[i + 1].parsed_position - 1)
      ]_vars

\* C19: a delimiter whose run_length has reached zero and that has been
\* deactivated takes part in no later pairing, as opener or as closer: after
\* a pairing that consumes the closer, its backward scan pairs it with no
\* earlier opener.
SpentDelimiterPairsNoMore ==
    [][Pair =>
          /\ delimiter_stack[i + 1].active /\ delimiter_stack[i + 1].run_length > 0
          /\ delimiter_stack[j + 1].active /\ delimiter_stack[j + 1].run_length > 0
      ]_vars

\* C20: after every splice, for each delimiter that is still active the
\* element at its parsed_position is its own Placeholder: none points at
\* another element or past the end of the list, and no two at the same one.
ActiveDelimitersKeepPlaceholder ==
    [][Pair =>
          \A k \in 1..Len(delimiter_stack') :
              delimiter_stack'[k].active =>
                  /\ delimiter_stack'[k].parsed_position < Len(elements')
                  /\ elements'[delimiter_stack'[k].parsed_position + 1] = Placeholder
                  /\ \A m \in 1..Len(delimiter_stack') :
                        (m # k /\ delimiter_stack'[m].active)
                            => delimiter_stack'[m].parsed_position
                                  # delimiter_stack'[k].parsed_position
      ]_vars

\* The delimiter at j can open, is active and has the character of the closer
\* whose backward scan is under way
IsCandidate ==
    /\ pc = "inner"
    /\ j >= 0
    /\ delimiter_stack[j + 1].active
    /\ delimiter_stack[j + 1].can_open
    /\ delimiter_stack[j + 1].ch = closer.ch

\* The rule of three on two delimiters
SkippedByThree(opener, cl) ==
    /\ (opener.can_open /\ opener.can_close) \/ (cl.can_open /\ cl.can_close)
    /\ (opener.run_length + cl.run_length) % 3 = 0
    /\ opener.run_length % 3 # 0
    /\ cl.run_length % 3 # 0

\* C21: a candidate pair of the same character is skipped exactly when one of
\* the two delimiters can both open and close, the sum of their run lengths is
\* a multiple of 3 and neither run length is; a skipped opener stays active
\* with its run_length and the backward scan goes on to the earlier openers.
RuleOfThreeSkips ==
    [][(IsCandidate /\ delimiter_stack[i + 1].active)
          => /\ SkipOpener <=> SkippedByThree(delimiter_stack[j + 1], delimiter_stack[i + 1])
             /\ SkipOpener => (delimiter_stack' = delimiter_stack /\ j' = j - 1 /\ pc' = "inner")
      ]_vars

\* group_lines_to_blocks stands before a line
AtSomeLine == dpc = "group" /\ line_index < Len(tokenized_lines)

\* C22: from the line that opens a fenced code block to the next line whose
\* first token is CodeFence, or to the end of the input, every line is appended
\* to that one block whatever its first token: none starts a block or
\* triggers another rule; after the closing fence line the fenced mode is off
\* and the later lines are dispatched by their first token.
FenceHoldsEveryLine ==
    [][/\ (AtSomeLine /\ is_inside_code_block)
            => /\ blocks # <<>>
               /\ Len(blocks') = Len(blocks)
               /\ Pop(blocks') = Pop(blocks)
               /\ PreviousBlock(blocks') =
                     PreviousBlock(blocks)
                         \o (IF First(CurrentLine) = CodeFence THEN <<>> ELSE <<Newline>>)
                         \o CurrentLine
               /\ is_inside_code_block' = (First(CurrentLine) # CodeFence)
       /\ (AtSomeLine /\ ~is_inside_code_block)
            => /\ is_inside_code_block' = (First(CurrentLine) = CodeFence)
               /\ First(CurrentLine) = CodeFence => blocks' = Append(blocks, CurrentLine)
               /\ ~LineInsideFence /\ ~LineClosingFence
      ]_vars

\* A heading line between two fences stays in the code block and the text
\* line after the closing fence is a block of its own
HeadingLineInsideFence ==
    /\ dpc = "done"
    /\ tokenized_lines = << <<CodeFence>>, <<Punctuation("#"), Whitespace, Text("a")>>,
                            <<CodeFence>>, <<Text("b")>> >>
    /\ blocks = << <<CodeFence, Newline, Punctuation("#"), Whitespace, Text("a"), CodeFence>>,
                   <<Text("b")>> >>

\* C23: the block pushed for an ATX heading line is that one line for good: no
\* later line of any kind (text, tab-led, whitespace-led, dash, thematic
\* break) is appended to a block whose first token is '#'.
HeadingBlockIsOneLine ==
    [][(AtSomeLine /\ ~is_inside_code_block
           /\ First(PreviousBlock(blocks)) = Punctuation("#"))
          => /\ Len(blocks') >= Len(blocks)
             /\ blocks'[Len(blocks)] = PreviousBlock(blocks)
      ]_vars

\* C25: a line whose first token is Whitespace and that has a token that is
\* no whitespace is appended to the previous block, whatever its kind, after
\* one Newline and without its leading whitespace tokens; it starts no block
\* of its own while there is a previous block.
IndentedLineContinuesBlock ==
    [][(AtSomeLine /\ ~is_inside_code_block /\ blocks # <<>>
           /\ First(CurrentLine) = Whitespace /\ FirstContent(CurrentLine) # NoToken)
          => blocks' = Append(Pop(blocks),
                              PreviousBlock(blocks) \o <<Newline>> \o SkipSpaces(CurrentLine))
      ]_vars

\* The text a token stands for in a paragraph: the text the scan appends for
\* the kinds of lines 635-645, and the character(s) of the source for the rest
FaithfulText(token) ==
    CASE token.k = "Tab" -> TabChar
      [] token.k = "Newline" -> "\n"
      [] token.k = "CodeFence" -> Repeat(Backtick, 3)
      [] OTHER -> BufferText(token)

\* C24: in parse_inline every token that is no EmphasisRun, OpenBracket,
\* CodeTick or '!' before '[' appends its faithful text to the buffer, Tab,
\* Newline and CodeFence inside a paragraph included.
EveryPlainTokenReachesBuffer ==
    [][(Scanning /\ Current(tokens, pos).k \notin {"EmphasisRun", "OpenBracket", "CodeTick"}
           /\ ~IsImageStart(tokens, pos))
          => buffer' = buffer \o FaithfulText(Current(tokens, pos))
      ]_vars

\* No job has panicked
NoJobPanicked == \A w \in DOMAIN workers : workers[w].at # "panicked"

\* C26: whatever the size of the pool and the interleaving of its workers,
\* while no job panics every job that execute accepted is entered at most
\* once, and when join_all has returned each of them has been entered exactly
\* once and has finished.
AcceptedJobsRunOnce ==
    NoJobPanicked
        => /\ \A job \in DOMAIN started : started[job] <= 1
           /\ mpc = "done" => \A job \in 1..sent : started[job] = 1 /\ job \in finished

\* join_all has returned from a pool of MaxWorkers workers after MaxJobs jobs,
\* none of which panicked
AllJobsDoneAtReturn ==
    /\ mpc = "done"
    /\ NoJobPanicked
    /\ Len(workers) = MaxWorkers
    /\ sent = MaxJobs
    /\ finished = 1..MaxJobs

\* The workers running a job
Running == {w \in DOMAIN workers : workers[w].at = "job"}

\* C27: at most one worker holds the receiver's mutex, a worker holds it only
\* between lock() and the end of the block of lines 74-77, never while it runs
\* a job, and no panic of a job leaves the mutex poisoned.
MutexFreeWhileJobRuns ==
    /\ Cardinality(mutex_holders) <= 1
    /\ \A w \in mutex_holders : workers[w].at \in {"recv", "unlock"}
    /\ mutex_holders \cap Running = {}
    /\ ~poisoned

\* Two workers run jobs at the same time
TwoJobsAtOnce == Cardinality(Running) = 2

\* C28: no worker leaves its loop while the sender is alive or a job is
\* queued; once join_all has dropped the sender, every worker's thread ends
\* and join_all returns.
WorkersLeaveAfterDrop ==
    /\ [](\A w \in DOMAIN workers :
              workers[w].at = "exited" => ~sender /\ queue = <<>>)
    /\ (mpc = "join") ~> (mpc = "done" /\ \A w \in DOMAIN workers : HasEnded(workers[w]))

\* join_all has returned and every worker has left its loop by the break
EveryWorkerLeft ==
    /\ mpc = "done"
    /\ Len(workers) = MaxWorkers
    /\ \A w \in DOMAIN workers : workers[w].at = "exited"
    /\ queue = <<>>
    /\ sent > 0

\* C29: after any number of lines handled by group_lines_to_blocks there are
\* at most as many blocks as lines handled, and no block is an empty token
\* sequence.
BlocksBoundedAndNonEmpty ==
    /\ Len(blocks) <= line_index
    /\ \A b \in DOMAIN blocks : blocks[b] # <<>>

\* Three lines have been handled and have given one block: a text line, a
\* blank line, which gives no block, and a thematic break, which rewrites the
\* block of the text line
BlankAndBreakGiveNoBlock ==
    /\ line_index = 3
    /\ tokenized_lines[1] = <<Text("a")>>
    /\ tokenized_lines[2] = <<>>
    /\ tokenized_lines[3] = <<ThematicBreak>>
    /\ Len(blocks) = 1

\* C30: every UnorderedList and OrderedList that parse_block returns has at
\* least one item; a block that starts with '-' or an OrderedListMarker but
\* with no Whitespace after the marker is not returned as a list of no items.
ListsHaveItems ==
    \A e \in DOMAIN parsed_elements :
        parsed_elements[e].t \in {"UnorderedList", "OrderedList"}
            => parsed_elements[e].items # <<>>

====
